---------------------------- MODULE Spec2Model ----------------------------
(***************************************************************************)
(* Industry Management System backend: the identifier allocator, the       *)
(* numeric normalisation and the CRUD handlers of the record collections.  *)
(*                                                                         *)
(* Python values are tagged records, so that isinstance() tests of the     *)
(* code can be written down: None, int, str, bool, float and Decimal.      *)
(* A float with at most two decimal digits is held as its number of        *)
(* hundredths; a Decimal is held as sign, coefficient and exponent.        *)
(***************************************************************************)
EXTENDS Integers, Sequences, FiniteSets, TLC

VARIABLES
    entity,     \* the collection a behaviour follows: "Agent", "Party" or "Product"
    seed,       \* the keys the collection held when the service started
    table,      \* the collection: key -> stored item
    req,        \* the requests: operation, position in the handler, locals, response
    writes,     \* number of put_item / delete_item calls the store has applied
    ver,        \* key -> index of the last write applied to that key (0: none)
    tomb,       \* keys whose DELETE returned success and no create was assigned since
    num,        \* numeric normalisation: the value, its encoding and its decoding
    filters,    \* product search: the SearchProduct body
    result,     \* product search: the response
    scanItems,  \* allocator: the Items of a scan
    nextId,     \* allocator: the value returned
    form        \* field validation: the field, its input and what the validator made of it

vars == <<entity, seed, table, req, writes, ver, tomb, num, filters, result, scanItems, nextId,
          form>>

crudVars == <<entity, seed, table, req, writes, ver, tomb>>
numVars == <<num>>
searchVars == <<filters, result>>
allocVars == <<scanItems, nextId>>
validVars == <<form>>

-----------------------------------------------------------------------------
(* Bounds of the model *)

\* requests of a behaviour in which they run one at a time, or only create and delete
MaxReq == 3
\* the collection starts with the records 1..n, n up to
MaxSeedKey == 1
\* requests of a behaviour in which every handler runs and store calls may fail
MaxConc == 2
\* numeric values range over -MaxCents..MaxCents hundredths
MaxCents == 500
\* items in a scan handed to the allocator on its own
MaxScan == 2
\* largest integer key among those items
MaxKeyVal == 3
\* products in the collection that is searched
MaxPool == 3
\* a digit-string input has up to MaxSlack digits fewer or more than its field asks for
MaxSlack == 1

-----------------------------------------------------------------------------
(* Python values. A str is a string; where the code reads a string character *)
(* by character (str(n) handed to Decimal) it is the sequence of its characters. *)

None == [none |-> TRUE]
IntV(n) == [int |-> n]
StrV(s) == [str |-> s]
BoolV(b) == [bool |-> b]
FltV(h) == [flt |-> h]
DecV(c, e) == [dec |-> <<c, e>>]
\* a float of m millionths that is no whole number of hundredths
FineV(m) == [fine |-> m]

IsNone(v) == "none" \in DOMAIN v
IsInt(v) == "int" \in DOMAIN v
IsStr(v) == "str" \in DOMAIN v
IsBool(v) == "bool" \in DOMAIN v
IsFlt(v) == "flt" \in DOMAIN v
IsDecimal(v) == "dec" \in DOMAIN v
IsFine(v) == "fine" \in DOMAIN v

Coef(d) == d.dec[1]
Exp(d) == d.dec[2]

RECURSIVE Pow10(_)
Pow10(n) == IF n <= 0 THEN 1 ELSE 10 * Pow10(n - 1)

Abs(n) == IF n < 0 THEN -n ELSE n

\* item.get(name): the attribute, None when the item has no such attribute
ItemGet(item, name) == IF name \in DOMAIN item THEN item[name] ELSE None

\* item.get(name, default)
ItemGetOr(item, name, default) == IF name \in DOMAIN item THEN item[name] ELSE default

\* Python truth value of v, as tested by "if v" and "not v"
Truthy(v) ==
    IF IsNone(v) THEN FALSE
    ELSE IF IsInt(v) THEN v.int # 0
    ELSE IF IsStr(v) THEN v.str # ""
    ELSE IF IsBool(v) THEN v.bool
    ELSE IF IsFlt(v) THEN v.flt # 0
    ELSE Coef(v) # 0

-----------------------------------------------------------------------------
(* Numeric normalisation *)

DigitChars == <<"0", "1", "2", "3", "4", "5", "6", "7", "8", "9">>

DigitChar(d) == DigitChars[d + 1]

DigitVal(c) == (CHOOSE i \in 1..Len(DigitChars) : DigitChars[i] = c) - 1

\* the decimal digits of a natural number
RECURSIVE Digits(_)
Digits(n) == IF n < 10 THEN <<DigitChar(n)>> ELSE Digits(n \div 10) \o <<DigitChar(n % 10)>>

\* the natural number a string of digits denotes
RECURSIVE DigitsVal(_)
DigitsVal(s) ==
    IF s = <<>> THEN 0 ELSE 10 * DigitsVal(SubSeq(s, 1, Len(s) - 1)) + DigitVal(s[Len(s)])

\* a str(n) that loses the zero after the point: "0.5" for 0.05
FloatStrNoPad(h) ==
    (IF h < 0 THEN <<"-">> ELSE <<>>) \o Digits(Abs(h) \div 100) \o <<".">>
        \o Digits(Abs(h) % 100)

\* str(n) of a float n of h hundredths: the shortest string that reads back as n,
\* "12.1" for 12.10, "5.0" for 5.00, "0.05" for 0.05
FloatStr(h) ==
    LET ip == Abs(h) \div 100
        fp == Abs(h) % 100
        frac == IF fp % 10 = 0 THEN <<DigitChar(fp \div 10)>>
                ELSE <<DigitChar(fp \div 10), DigitChar(fp % 10)>>
    IN  (IF h < 0 THEN <<"-">> ELSE <<>>) \o Digits(ip) \o <<".">> \o frac

\* str(n) of a positive float n of m millionths that is no whole number of
\* hundredths: the digits after the point without the zeros at their end, "1.234";
\* below 0.0001 the string is written with an exponent, "1e-05", "1.5e-05"
FineStr(m) ==
    LET ds == Digits(m)
        mantissa == IF Len(ds) = 1 THEN ds
                    ELSE IF ds[2] = "0" THEN <<ds[1]>>
                    ELSE <<ds[1], ".", ds[2]>>
        six == [i \in 1..6 |-> DigitChar((m % 1000000) \div Pow10(6 - i) % 10)]
        last == CHOOSE i \in 1..6 : six[i] # "0" /\ \A j \in (i + 1)..6 : six[j] = "0"
    IN  IF m < 100 THEN mantissa \o <<"e", "-", "0">> \o Digits(7 - Len(ds))
        ELSE Digits(m \div 1000000) \o <<".">> \o SubSeq(six, 1, last)

\* str(v) of a float v
float_str(v) == IF IsFine(v) THEN FineStr(v.fine) ELSE FloatStr(v.flt)

\* Decimal(s) of a numeric string s: every digit written is kept
DecimalOfStr(s) ==
    LET neg == s # <<>> /\ s[1] = "-"
        body == IF neg THEN Tail(s) ELSE s
        dots == {i \in 1..Len(body) : body[i] = "."}
        dot == IF dots = {} THEN Len(body) + 1 ELSE CHOOSE i \in dots : TRUE
        ipart == SubSeq(body, 1, dot - 1)
        fpart == SubSeq(body, dot + 1, Len(body))
        c == DigitsVal(ipart \o fpart)
    IN  DecV(IF neg THEN -c ELSE c, -Len(fpart))

ddb_decimal(n) == DecimalOfStr(FloatStr(n.flt))

\* float(d) of a Decimal d
FloatOfDecimal(d) ==
    IF Exp(d) >= -2 THEN FltV(Coef(d) * Pow10(Exp(d) + 2))
    ELSE FltV((IF Coef(d) < 0 THEN -1 ELSE 1) * (Abs(Coef(d)) \div Pow10(-2 - Exp(d))))

\* int(d) of a Decimal d: the fraction is cut off
IntOfDecimal(d) ==
    IF Exp(d) >= 0 THEN IntV(Coef(d) * Pow10(Exp(d)))
    ELSE IntV((IF Coef(d) < 0 THEN -1 ELSE 1) * (Abs(Coef(d)) \div Pow10(-Exp(d))))

\* the characters of cs joined into one string
RECURSIVE Join(_)
Join(cs) == IF cs = <<>> THEN "" ELSE Head(cs) \o Join(Tail(cs))

\* str(d) of a Decimal d with exponent <= 0: every digit of d is written
StrOfDecimal(d) ==
    LET k == -Exp(d)
        ds == Digits(Abs(Coef(d)))
        pad == [i \in 1..(IF Len(ds) > k THEN 0 ELSE k + 1 - Len(ds)) |-> "0"]
        all == pad \o ds
        sign == IF Coef(d) < 0 THEN <<"-">> ELSE <<>>
    IN  IF k = 0 THEN StrV(Join(sign \o ds))
        ELSE StrV(Join(sign \o SubSeq(all, 1, Len(all) - k) \o <<".">>
                            \o SubSeq(all, Len(all) - k + 1, Len(all))))

\* normalize_ddb_item: every Decimal attribute becomes a float
normalize_ddb_item(item) ==
    [k \in DOMAIN item |-> IF IsDecimal(item[k]) THEN FloatOfDecimal(item[k]) ELSE item[k]]

\* convert_decimal of normalize_product_item
convert_decimal(value) == IF IsDecimal(value) THEN FloatOfDecimal(value) ELSE value

-----------------------------------------------------------------------------
(* The store: put_item writes the attribute values, get_item and scan read them *)
(* back. A number comes back as a Decimal without trailing zeros.               *)

RECURSIVE Trim(_, _)
Trim(c, e) == IF e < 0 /\ c % 10 = 0 THEN Trim(c \div 10, e + 1) ELSE DecV(c, e)

StoredValue(v) ==
    IF IsInt(v) THEN DecV(v.int, 0)
    ELSE IF IsDecimal(v) THEN Trim(Coef(v), Exp(v))
    ELSE v

StoredItem(item) == [k \in DOMAIN item |-> StoredValue(item[k])]

-----------------------------------------------------------------------------
(* Response normalisation of the three allocator-keyed entities *)

\* convert of normalize_agent_item: a Decimal becomes its string
agent_convert(value) == IF IsDecimal(value) THEN StrOfDecimal(value) ELSE value

\* a normalisation that hands the stored key on as it is
normalize_agent_item_raw(item) ==
    [agentId |-> item["AgentId"],
     name |-> agent_convert(ItemGet(item, "Name")),
     mobile |-> agent_convert(ItemGet(item, "Mobile")),
     aadhar_Details |-> agent_convert(ItemGet(item, "Aadhar_Details")),
     address |-> agent_convert(ItemGet(item, "Address"))]

normalize_agent_item(item) ==
    [agentId |-> IF IsDecimal(item["AgentId"]) THEN IntOfDecimal(item["AgentId"])
                 ELSE item["AgentId"],
     name |-> agent_convert(ItemGet(item, "Name")),
     mobile |-> agent_convert(ItemGet(item, "Mobile")),
     aadhar_Details |-> agent_convert(ItemGet(item, "Aadhar_Details")),
     address |-> agent_convert(ItemGet(item, "Address"))]

\* str(value) of a value that is an int or already a str
StrOf(value) ==
    IF IsInt(value)
    THEN StrV(Join((IF value.int < 0 THEN <<"-">> ELSE <<>>) \o Digits(Abs(value.int))))
    ELSE value

\* a convert that takes the string of whatever it is given: str(None) is 'None'
party_convert_text(value) ==
    LET v == IF IsDecimal(value) THEN IntOfDecimal(value) ELSE value
    IN  IF IsNone(v) THEN StrV("None") ELSE StrOf(v)

\* convert of normalize_party_item: a Decimal becomes the string of its integer part
party_convert(value) ==
    LET v == IF IsDecimal(value) THEN IntOfDecimal(value) ELSE value
    IN  IF IsNone(v) THEN None ELSE StrOf(v)

normalize_party_item(item) ==
    [partyId |-> IF IsDecimal(item["PartyId"]) THEN IntOfDecimal(item["PartyId"])
                 ELSE item["PartyId"],
     partyName |-> ItemGet(item, "PartyName"),
     aliasOrCompanyName |-> ItemGet(item, "AliasOrCompanyName"),
     address |-> ItemGet(item, "Address"),
     city |-> ItemGet(item, "City"),
     state |-> ItemGet(item, "State"),
     pincode |-> party_convert(ItemGet(item, "Pincode")),
     agentId |-> IF Truthy(ItemGet(item, "AgentId")) /\ IsDecimal(item["AgentId"])
                 THEN IntOfDecimal(item["AgentId"]) ELSE ItemGet(item, "AgentId"),
     contact_Person1 |-> ItemGet(item, "Contact_Person1"),
     contact_Person2 |-> ItemGet(item, "Contact_Person2"),
     email |-> ItemGet(item, "Email"),
     mobile1 |-> party_convert(ItemGet(item, "Mobile1")),
     mobile2 |-> party_convert(ItemGet(item, "Mobile2")),
     orderId |-> party_convert(ItemGet(item, "OrderId"))]

normalize_product_item(item) ==
    [productId |-> IF IsDecimal(item["ProductId"]) THEN IntOfDecimal(item["ProductId"])
                   ELSE item["ProductId"],
     productType |-> ItemGet(item, "ProductType"),
     productSize |-> convert_decimal(ItemGet(item, "ProductSize")),
     bagMaterial |-> ItemGet(item, "BagMaterial"),
     quantity |-> convert_decimal(ItemGet(item, "Quantity")),
     sheetGSM |-> convert_decimal(ItemGet(item, "SheetGSM")),
     sheetColor |-> ItemGet(item, "SheetColor"),
     borderGSM |-> convert_decimal(ItemGet(item, "BorderGSM")),
     borderColor |-> ItemGet(item, "BorderColor"),
     handleType |-> ItemGet(item, "HandleType"),
     handleColor |-> ItemGet(item, "HandleColor"),
     handleGSM |-> convert_decimal(ItemGet(item, "HandleGSM")),
     printingType |-> ItemGet(item, "PrintingType"),
     printColor |-> ItemGet(item, "PrintColor"),
     color |-> ItemGet(item, "Color"),
     design |-> ItemGetOr(item, "Design", BoolV(FALSE)),
     plateBlockNumber |-> convert_decimal(ItemGet(item, "PlateBlockNumber")),
     plateAvailable |-> ItemGetOr(item, "PlateAvailable", BoolV(FALSE)),
     rate |-> convert_decimal(ItemGet(item, "Rate"))]

-----------------------------------------------------------------------------
(* Response conversion of the order collection *)

\* a conversion without the whole-number branch: every Decimal becomes a float
decimal_to_python_float(obj) ==
    IF IsDecimal(obj) THEN FloatOfDecimal(obj) ELSE obj

\* decimal_to_python of a value that is not a container: a Decimal obj with
\* obj % 1 == 0 becomes an int, any other Decimal a float, anything else is handed on
decimal_to_python(obj) ==
    IF IsDecimal(obj)
    THEN IF Exp(obj) >= 0 \/ Coef(obj) % Pow10(-Exp(obj)) = 0
         THEN IntOfDecimal(obj) ELSE FloatOfDecimal(obj)
    ELSE obj

\* convert_item_to_python: decimal_to_python of the item (a dict: each attribute
\* converted), then OrderId as a string
convert_item_to_python(item) ==
    LET python_item == [k \in DOMAIN item |-> decimal_to_python(item[k])]
    IN  IF "OrderId" \in DOMAIN python_item
        THEN [python_item EXCEPT !["OrderId"] = StrOf(python_item["OrderId"])]
        ELSE python_item

-----------------------------------------------------------------------------
(* Field validation. A str handed to a validator is the sequence of its       *)
(* characters; the value a validator returns is a str of the payload.         *)

CharsV(cs) == [chars |-> cs]

\* c.isdigit() and c.isspace() of one character
isdigit(c) == \E i \in 1..Len(DigitChars) : DigitChars[i] = c
isspace(c) == c \in {" ", "\t", "\n"}

\* [a-zA-Z], and v.lower()
isletter(c) ==
    c \in {"A", "B", "C", "D", "E", "F", "G", "H", "I", "J", "K", "L", "M", "N", "O", "P",
           "Q", "R", "S", "T", "U", "V", "W", "X", "Y", "Z", "a", "b", "c", "d", "e", "f",
           "g", "h", "i", "j", "k", "l", "m", "n", "o", "p", "q", "r", "s", "t", "u", "v",
           "w", "x", "y", "z"}

lower(cs) ==
    LET Upper == <<"A", "B", "C", "D", "E", "F", "G", "H", "I", "J", "K", "L", "M", "N",
                   "O", "P", "Q", "R", "S", "T", "U", "V", "W", "X", "Y", "Z">>
        Lower == <<"a", "b", "c", "d", "e", "f", "g", "h", "i", "j", "k", "l", "m", "n",
                   "o", "p", "q", "r", "s", "t", "u", "v", "w", "x", "y", "z">>
        lower_char(c) ==
            IF \E i \in 1..Len(Upper) : c = Upper[i]
            THEN Lower[CHOOSE i \in 1..Len(Upper) : c = Upper[i]]
            ELSE c
    IN  [i \in 1..Len(cs) |-> lower_char(cs[i])]

\* v.strip(): the whitespace before the first and after the last other character
\* is dropped
strip(cs) ==
    LET inner == {i \in 1..Len(cs) : ~isspace(cs[i])}
    IN  IF inner = {} THEN <<>>
        ELSE SubSeq(cs, CHOOSE i \in inner : \A j \in inner : i <= j,
                        CHOOSE i \in inner : \A j \in inner : j <= i)

\* ''.join(c for c in v if c.isdigit())
OnlyDigits(cs) == SelectSeq(cs, isdigit)

\* cleaned.isdigit(): not empty and every character a digit
AllDigits(cs) == cs # <<>> /\ \A i \in 1..Len(cs) : isdigit(cs[i])

\* the str of the payload a sequence of characters stands for
PyStr(cs) == StrV(Join(cs))

\* what a field's validation comes to: the value of the field, or the exception
\* raised. A ValueError becomes an error of the 422 response, and the error of a
\* categorical field enumerates the valid values; any other exception leaves the
\* validation as it is and no handler of the route catches it
Accepted(v) == [ok |-> TRUE, value |-> v, raised |-> "", msg |-> "", valid |-> <<>>]
ValueError(msg) ==
    [ok |-> FALSE, value |-> None, raised |-> "ValueError", msg |-> msg, valid |-> <<>>]
ChoiceError(msg, valid) ==
    [ok |-> FALSE, value |-> None, raised |-> "ValueError", msg |-> msg, valid |-> valid]
TypeError(msg) ==
    [ok |-> FALSE, value |-> None, raised |-> "TypeError", msg |-> msg, valid |-> <<>>]

MobileDigits == 10
AadharDigits == 12
PincodeDigits == 6
PincodeMaxLength == 10

\* CreateAgent.validate_mobile, UpdateAgent.validate_mobile
validate_mobile(v) ==
    IF v.chars = <<>> THEN ValueError("Mobile number is required")
    ELSE LET cleaned == OnlyDigits(v.chars)
         IN  IF Len(cleaned) # MobileDigits
             THEN ValueError("Mobile number must be exactly 10 digits")
             ELSE IF ~AllDigits(cleaned)
             THEN ValueError("Mobile number must contain only digits")
             ELSE Accepted(PyStr(cleaned))

\* CreateAgent.validate_aadhar, UpdateAgent.validate_aadhar
validate_aadhar(v) ==
    IF v.chars = <<>> THEN ValueError("Aadhar number is required")
    ELSE LET cleaned == OnlyDigits(v.chars)
         IN  IF Len(cleaned) # AadharDigits
             THEN ValueError("Aadhar number must be exactly 12 digits")
             ELSE IF ~AllDigits(cleaned)
             THEN ValueError("Aadhar number must contain only digits")
             ELSE Accepted(PyStr(cleaned))

\* a primary mobile validation that lets every ten-digit number through
validate_mobile1_anyFirst(v) ==
    IF v.chars = <<>> THEN ValueError("Mobile 1 is required")
    ELSE LET cleaned == OnlyDigits(v.chars)
         IN  IF Len(cleaned) # MobileDigits
             THEN ValueError("Mobile 1 must be exactly 10 digits")
             ELSE Accepted(PyStr(cleaned))

\* CreateParty.validate_mobile1, UpdateParty.validate_mobile1
validate_mobile1(v) ==
    IF v.chars = <<>> THEN ValueError("Mobile 1 is required")
    ELSE LET cleaned == OnlyDigits(v.chars)
         IN  IF Len(cleaned) # MobileDigits
             THEN ValueError("Mobile 1 must be exactly 10 digits")
             ELSE IF ~AllDigits(cleaned)
             THEN ValueError("Mobile 1 must contain only digits")
             ELSE IF cleaned[1] \in {"0", "1"}
             THEN ValueError("Mobile 1 cannot start with 0 or 1")
             ELSE Accepted(PyStr(cleaned))

\* CreateParty.validate_mobile2, UpdateParty.validate_mobile2: None and "" are
\* handed back as they are, a blank string becomes None
validate_mobile2(v) ==
    IF IsNone(v) THEN Accepted(None)
    ELSE IF v.chars = <<>> THEN Accepted(PyStr(v.chars))
    ELSE IF strip(v.chars) = <<>> THEN Accepted(None)
    ELSE LET cleaned == OnlyDigits(v.chars)
         IN  IF Len(cleaned) # MobileDigits
             THEN ValueError("Mobile 2 must be exactly 10 digits")
             ELSE IF ~AllDigits(cleaned)
             THEN ValueError("Mobile 2 must contain only digits")
             ELSE IF cleaned[1] \in {"0", "1"}
             THEN ValueError("Mobile 2 cannot start with 0 or 1")
             ELSE Accepted(PyStr(cleaned))

\* CreateParty.validate_pincode, UpdateParty.validate_pincode: only spaces are
\* taken out of the input
validate_pincode(v) ==
    IF IsNone(v) THEN Accepted(None)
    ELSE IF v.chars = <<>> THEN Accepted(PyStr(v.chars))
    ELSE IF strip(v.chars) = <<>> THEN Accepted(None)
    ELSE LET cleaned == SelectSeq(v.chars, LAMBDA c : c # " ")
         IN  IF Len(cleaned) # PincodeDigits
             THEN ValueError("Pincode must be exactly 6 digits")
             ELSE IF ~AllDigits(cleaned)
             THEN ValueError("Pincode must contain only digits")
             ELSE Accepted(PyStr(cleaned))

\* v > n of a float v and a whole number n: the whole part and the rest of v are
\* compared, v being held in hundredths or in millionths
GreaterThan(v, n) ==
    LET whole == IF IsFine(v) THEN v.fine \div 1000000 ELSE v.flt \div 100
        rest == IF IsFine(v) THEN v.fine % 1000000 ELSE v.flt % 100
    IN  whole > n \/ (whole = n /\ rest > 0)

\* a product number that is accepted only below max
product_number_belowMax(v, positive, max, low, high) ==
    IF (IF positive THEN ~GreaterThan(v, 0) ELSE v.flt < 0) THEN ValueError(low)
    ELSE IF v.flt >= 100 * max THEN ValueError(high)
    ELSE Accepted(v)

\* CreateProduct.validate_product_size, validate_quantity and
\* validate_plate_block_number (and those of UpdateProduct): a size is positive,
\* a quantity and a plate block number are not negative, and none is above max
product_number(v, positive, max, low, high) ==
    IF (IF positive THEN ~GreaterThan(v, 0) ELSE v.flt < 0) THEN ValueError(low)
    ELSE IF GreaterThan(v, max) THEN ValueError(high)
    ELSE Accepted(v)

\* CreateProduct.validate_rate, UpdateProduct.validate_rate: the decimal places are
\* counted on str(v), as what follows its last point
validate_rate(v) ==
    LET s == float_str(v)
        points == {i \in 1..Len(s) : s[i] = "."}
        after == SubSeq(s, (CHOOSE i \in points : \A j \in points : j <= i) + 1, Len(s))
    IN  IF ~GreaterThan(v, 0) THEN ValueError("Rate must be greater than 0")
        ELSE IF GreaterThan(v, 1000000) THEN ValueError("Rate seems too large (max 1,000,000)")
        ELSE IF points # {} /\ Len(after) > 2
        THEN ValueError("Rate can have maximum 2 decimal places")
        ELSE Accepted(v)

\* a str field declared with Field(min_length=..., max_length=...): the lengths
\* are checked on the value as it came, before the field's validator runs
str_field(v, min_length, max_length) ==
    IF Len(v.chars) < min_length
    THEN ValueError("String should have at least " \o Join(Digits(min_length))
                        \o (IF min_length = 1 THEN " character" ELSE " characters"))
    ELSE IF Len(v.chars) > max_length
    THEN ValueError("String should have at most " \o Join(Digits(max_length)) \o " characters")
    ELSE Accepted(v)

\* the characters a name may hold: letters and whitespace (an agent's name), and
\* dots, hyphens and apostrophes as well (a contact person); anything otherwise
TextChars(cs, chars) ==
    \A i \in 1..Len(cs) :
        CASE chars = "alpha" -> isletter(cs[i]) \/ isspace(cs[i])
          [] chars = "person" -> isletter(cs[i]) \/ isspace(cs[i]) \/ cs[i] \in {".", "-", "'"}
          [] OTHER -> TRUE

\* a required text that is accepted when only blank
required_text_lenient(v, label, least, most, chars) ==
    IF v.chars = <<>> THEN ValueError(label \o " cannot be empty")
    ELSE IF strip(v.chars) # <<>> /\ Len(strip(v.chars)) < least
    THEN ValueError(label \o " must be at least " \o Join(Digits(least)) \o " characters long")
    ELSE IF Len(v.chars) > most
    THEN ValueError(label \o " cannot exceed " \o Join(Digits(most)) \o " characters")
    ELSE IF ~TextChars(v.chars, chars)
    THEN ValueError(IF chars = "alpha" THEN "Name can only contain letters and spaces"
                    ELSE "Contact person name can only contain letters, spaces, dots, hyphens, and apostrophes")
    ELSE Accepted(PyStr(strip(v.chars)))

\* the validator of a required text: validate_name and validate_address of the
\* agent models, validate_party_name, validate_alias_company_name and
\* validate_contact_person1 of the party models, validate_product_type of the
\* product models
required_text(v, label, least, most, chars) ==
    IF v.chars = <<>> \/ strip(v.chars) = <<>> THEN ValueError(label \o " cannot be empty")
    ELSE IF Len(strip(v.chars)) < least
    THEN ValueError(label \o " must be at least " \o Join(Digits(least)) \o " characters long")
    ELSE IF Len(v.chars) > most
    THEN ValueError(label \o " cannot exceed " \o Join(Digits(most)) \o " characters")
    ELSE IF ~TextChars(v.chars, chars)
    THEN ValueError(IF chars = "alpha" THEN "Name can only contain letters and spaces"
                    ELSE "Contact person name can only contain letters, spaces, dots, hyphens, and apostrophes")
    ELSE Accepted(PyStr(strip(v.chars)))

\* the validator of an optional text: validate_contact_person2, validate_address,
\* validate_city, validate_state and validate_order_id of the party models. None
\* and "" are handed back as they are, a blank string becomes None
optional_text(v, label, least, most, chars) ==
    IF IsNone(v) THEN Accepted(None)
    ELSE IF v.chars = <<>> THEN Accepted(PyStr(v.chars))
    ELSE IF strip(v.chars) = <<>> THEN Accepted(None)
    ELSE IF Len(strip(v.chars)) < least
    THEN ValueError(label \o " must be at least " \o Join(Digits(least)) \o " characters long"
                        \o (IF chars = "person" THEN "" ELSE " if provided"))
    ELSE IF Len(v.chars) > most
    THEN ValueError(label \o " cannot exceed " \o Join(Digits(most)) \o " characters")
    ELSE IF ~TextChars(v.chars, chars)
    THEN ValueError(IF chars = "alpha" THEN "Name can only contain letters and spaces"
                    ELSE "Contact person name can only contain letters, spaces, dots, hyphens, and apostrophes")
    ELSE Accepted(PyStr(strip(v.chars)))

\* an order mobile bound below by 2000000000
Order_Mobile_from2(v) ==
    IF v.int < 2000000000
    THEN ValueError("Input should be greater than or equal to 2000000000")
    ELSE IF v.int \div 10 > 999999999
    THEN ValueError("Input should be less than or equal to 9999999999")
    ELSE Accepted(v)

\* BaseOrderModel.Mobile1, Mobile2: int, Field(ge=1000000000, le=9999999999); the
\* upper bound is compared after a division by ten, v <= 9999999999 being
\* v // 10 <= 999999999
Order_Mobile(v) ==
    IF v.int < 1000000000
    THEN ValueError("Input should be greater than or equal to 1000000000")
    ELSE IF v.int \div 10 > 999999999
    THEN ValueError("Input should be less than or equal to 9999999999")
    ELSE Accepted(v)

\* re.match(r'^[^\s@]+@[^\s@]+\.[^\s@]+$', v): the pattern matches the whole of v,
\* or the whole of v but the newline that ends it
email_pattern(cs) ==
    LET NotSpaceOrAt(c) == ~isspace(c) /\ c # "@"
        Shape(w) ==
            \E i \in 1..Len(w) :
                LET local == SubSeq(w, 1, i - 1)
                    rest == SubSeq(w, i + 1, Len(w))
                IN  /\ w[i] = "@"
                    /\ local # <<>> /\ \A k \in 1..Len(local) : NotSpaceOrAt(local[k])
                    /\ \A k \in 1..Len(rest) : NotSpaceOrAt(rest[k])
                    /\ \E j \in 2..(Len(rest) - 1) : rest[j] = "."
    IN  \/ Shape(cs)
        \/ cs # <<>> /\ cs[Len(cs)] = "\n" /\ Shape(SubSeq(cs, 1, Len(cs) - 1))

\* an email validation that hands the address on as it was written
validate_email_asGiven(v) ==
    IF IsNone(v) THEN Accepted(None)
    ELSE IF v.chars = <<>> THEN Accepted(PyStr(v.chars))
    ELSE IF strip(v.chars) = <<>> THEN Accepted(None)
    ELSE IF ~email_pattern(v.chars)
    THEN ValueError("Please enter a valid email address (e.g., user@example.com)")
    ELSE Accepted(PyStr(strip(v.chars)))

\* CreateParty.validate_email, UpdateParty.validate_email
validate_email(v) ==
    IF IsNone(v) THEN Accepted(None)
    ELSE IF v.chars = <<>> THEN Accepted(PyStr(v.chars))
    ELSE IF strip(v.chars) = <<>> THEN Accepted(None)
    ELSE IF ~email_pattern(v.chars)
    THEN ValueError("Please enter a valid email address (e.g., user@example.com)")
    ELSE Accepted(PyStr(lower(strip(v.chars))))

\* ^[a-zA-Z0-9._%+-]+@[a-zA-Z0-9.-]+\.[a-zA-Z]{2,}$ matches the whole of cs
order_email_pattern(cs) ==
    LET LocalChar(c) == isletter(c) \/ isdigit(c) \/ c \in {".", "_", "%", "+", "-"}
        DomainChar(c) == isletter(c) \/ isdigit(c) \/ c \in {".", "-"}
    IN  \E i \in 1..Len(cs) :
            LET local == SubSeq(cs, 1, i - 1)
                rest == SubSeq(cs, i + 1, Len(cs))
            IN  /\ cs[i] = "@"
                /\ local # <<>> /\ \A k \in 1..Len(local) : LocalChar(local[k])
                /\ \E j \in 2..(Len(rest) - 2) :
                     /\ rest[j] = "."
                     /\ \A k \in 1..(j - 1) : DomainChar(rest[k])
                     /\ \A k \in (j + 1)..Len(rest) : isletter(rest[k])

\* BaseOrderModel.Email: str = Field(..., pattern=...): the value is kept as given
Order_Email(v) ==
    IF ~order_email_pattern(v.chars) THEN ValueError("String should match pattern")
    ELSE Accepted(PyStr(v.chars))

\* a < b of two str: the first character that differs decides by its code point,
\* a prefix comes first
RECURSIVE StrLess(_, _)
StrLess(a, b) ==
    LET Alphabet ==
            <<" ", "-", "A", "B", "C", "D", "E", "F", "G", "H", "I", "J", "K", "L", "M",
              "N", "O", "P", "Q", "R", "S", "T", "U", "V", "W", "X", "Y", "Z", "a", "b",
              "c", "d", "e", "f", "g", "h", "i", "j", "k", "l", "m", "n", "o", "p", "q",
              "r", "s", "t", "u", "v", "w", "x", "y", "z">>
        ord(c) == CHOOSE i \in 1..Len(Alphabet) : Alphabet[i] = c
    IN  IF b = <<>> THEN FALSE
        ELSE IF a = <<>> THEN TRUE
        ELSE IF Head(a) = Head(b) THEN StrLess(Tail(a), Tail(b))
        ELSE ord(Head(a)) < ord(Head(b))

\* an enumeration of a set of str from the last to the first
RECURSIVE sorted_reversed(_)
sorted_reversed(S) ==
    IF S = {} THEN <<>>
    ELSE LET m == CHOOSE x \in S : \A y \in S \ {x} : StrLess(y, x)
         IN  <<m>> \o sorted_reversed(S \ {m})

\* sorted(S) of a set of str
RECURSIVE sorted(_)
sorted(S) ==
    IF S = {} THEN <<>>
    ELSE LET m == CHOOSE x \in S : \A y \in S \ {x} : StrLess(x, y)
         IN  <<m>> \o sorted(S \ {m})

\* map(str, sorted(S)) of a set of int
RECURSIVE sorted_str(_)
sorted_str(S) ==
    IF S = {} THEN <<>>
    ELSE LET m == CHOOSE x \in S : \A y \in S : x <= y
         IN  <<Digits(m)>> \o sorted_str(S \ {m})

\* a product validator of a str field: the value is trimmed, looked up, and
\* returned trimmed
product_choice(v, empty, invalid, VALID) ==
    IF v.chars = <<>> \/ strip(v.chars) = <<>> THEN ValueError(empty)
    ELSE IF strip(v.chars) \notin VALID THEN ChoiceError(invalid, sorted(VALID))
    ELSE Accepted(PyStr(strip(v.chars)))

\* a product validator of a GSM field (declared float): float(v) is looked up
product_gsm(v, invalid, VALID) ==
    LET float == IF IsInt(v) THEN FltV(100 * v.int) ELSE v
    IN  IF float \notin {FltV(100 * n) : n \in VALID}
        THEN ChoiceError(invalid, sorted_str(VALID))
        ELSE Accepted(float)

\* an order validator of a str field: the value itself is looked up
order_choice(v, invalid, VALID) ==
    IF v.chars \notin VALID THEN ChoiceError(invalid, sorted(VALID))
    ELSE Accepted(PyStr(v.chars))

\* an order validator of a GSM field (mode='before': it runs on the value as it
\* came, null included): int(v), the fraction cut off, is looked up and returned;
\* int(None) raises TypeError
order_gsm(v, invalid, VALID) ==
    LET int == IF IsInt(v) THEN v.int
               ELSE (IF v.flt < 0 THEN -1 ELSE 1) * (Abs(v.flt) \div 100)
    IN  IF IsNone(v)
        THEN TypeError("int() argument must be a string, a bytes-like object or a real number, not 'NoneType'")
        ELSE IF int \notin VALID THEN ChoiceError(invalid, sorted_str(VALID))
        ELSE Accepted(IntV(int))

\* the fields of the request models that are validated here: [model, name]
Fields ==
    {<<"Agent", "mobile">>, <<"Agent", "aadhar_Details">>, <<"Party", "mobile1">>,
     <<"Party", "mobile2">>, <<"Party", "pincode">>, <<"Party", "email">>,
     <<"Order", "Email">>, <<"Product", "bagMaterial">>, <<"Product", "sheetColor">>,
     <<"Product", "borderColor">>, <<"Product", "handleType">>,
     <<"Product", "handleColor">>, <<"Product", "printingType">>,
     <<"Product", "printColor">>, <<"Product", "color">>, <<"Product", "sheetGSM">>,
     <<"Product", "borderGSM">>, <<"Product", "handleGSM">>,
     <<"Order", "BagMaterial">>, <<"Order", "SheetColor">>, <<"Order", "BorderColor">>,
     <<"Order", "HandleType">>, <<"Order", "HandleColor">>,
     <<"Order", "PrintingType">>, <<"Order", "PrintColor">>, <<"Order", "Color">>,
     <<"Order", "SheetGSM">>, <<"Order", "BorderGSM">>, <<"Order", "HandleGSM">>,
     <<"Account", "amount">>, <<"Order", "Mobile1">>, <<"Order", "Mobile2">>,
     <<"Agent", "name">>, <<"Agent", "address">>, <<"Party", "partyName">>,
     <<"Party", "aliasOrCompanyName">>, <<"Party", "contact_Person1">>,
     <<"Party", "contact_Person2">>, <<"Party", "address">>, <<"Party", "city">>,
     <<"Party", "state">>, <<"Party", "orderId">>, <<"Product", "productType">>,
     <<"Order", "Party_Name">>, <<"Order", "AliasOrCompanyName">>, <<"Order", "Address">>,
     <<"Order", "City">>, <<"Order", "State">>, <<"Order", "Contact_Person1">>,
     <<"Order", "Contact_Person2">>, <<"Account", "type">>, <<"Account", "description">>,
     <<"Account", "partyName">>, <<"Account", "date">>, <<"Account", "txnId">>,
     <<"Product", "productSize">>, <<"Product", "quantity">>,
     <<"Product", "plateBlockNumber">>, <<"Product", "rate">>, <<"Order", "Rate">>,
     <<"Order", "TotalAmount">>}

\* the fields that hold free text
TextFields ==
    {<<"Agent", "name">>, <<"Agent", "address">>, <<"Party", "partyName">>,
     <<"Party", "aliasOrCompanyName">>, <<"Party", "contact_Person1">>,
     <<"Party", "contact_Person2">>, <<"Party", "address">>, <<"Party", "city">>,
     <<"Party", "state">>, <<"Party", "orderId">>, <<"Product", "productType">>,
     <<"Order", "Party_Name">>, <<"Order", "AliasOrCompanyName">>, <<"Order", "Address">>,
     <<"Order", "City">>, <<"Order", "State">>, <<"Order", "Contact_Person1">>,
     <<"Order", "Contact_Person2">>, <<"Account", "type">>, <<"Account", "description">>,
     <<"Account", "partyName">>, <<"Account", "date">>}

\* what a field holds: free text, a digit string, an email, a GSM weight, a number
\* or another categorical
FieldKind(f) ==
    IF f \in TextFields THEN "text"
    ELSE IF f[2] = "txnId" THEN "key"
    ELSE IF f[2] \in {"productSize", "quantity", "plateBlockNumber", "rate", "Rate",
                      "TotalAmount"} THEN "quantity"
    ELSE IF f[2] \in {"mobile", "aadhar_Details", "mobile1", "mobile2", "pincode"} THEN "digits"
    ELSE IF f[2] \in {"email", "Email"} THEN "email"
    ELSE IF f[2] \in {"sheetGSM", "borderGSM", "handleGSM", "SheetGSM", "BorderGSM",
                      "HandleGSM"} THEN "gsm"
    ELSE IF f[2] = "amount" THEN "number"
    ELSE IF f[2] \in {"Mobile1", "Mobile2"} THEN "mobile_int"
    ELSE "choice"

\* the allow-list of a categorical field: VALID_BAG_MATERIALS ... VALID_HANDLE_GSMS of
\* the product models and of the order models
ValidSet(f) ==
    CASE f = <<"Product", "bagMaterial">> ->
           {<<"C", "o", "t", "t", "o", "n", " ", "C", "a", "n", "v", "a", "s">>,
            <<"J", "u", "t", "e">>,
            <<"L", "i", "n", "e", "n">>,
            <<"O", "r", "g", "a", "n", "i", "c", " ", "C", "o", "t", "t", "o", "n">>,
            <<"R", "e", "c", "y", "c", "l", "e", "d", " ", "P", "o", "l", "y", "e", "s", "t", "e", "r">>}
      [] f = <<"Product", "sheetColor">> ->
           {<<"B", "r", "o", "w", "n">>,
            <<"C", "r", "e", "a", "m">>,
            <<"K", "r", "a", "f", "t">>,
            <<"N", "a", "t", "u", "r", "a", "l", " ", "W", "h", "i", "t", "e">>,
            <<"O", "f", "f", " ", "W", "h", "i", "t", "e">>}
      [] f = <<"Product", "borderColor">> ->
           {<<"B", "l", "a", "c", "k">>,
            <<"B", "r", "o", "w", "n">>,
            <<"G", "r", "a", "y">>,
            <<"N", "a", "v", "y", " ", "B", "l", "u", "e">>,
            <<"R", "e", "d">>,
            <<"W", "h", "i", "t", "e">>}
      [] f = <<"Product", "handleType">> ->
           {<<"B", "r", "a", "i", "d", "e", "d", " ", "H", "a", "n", "d", "l", "e">>,
            <<"D", "o", "u", "b", "l", "e", " ", "S", "t", "i", "t", "c", "h", "e", "d", " ", "C", "o", "t", "t", "o", "n", " ", "R", "o", "p", "e">>,
            <<"S", "i", "n", "g", "l", "e", " ", "S", "t", "i", "t", "c", "h", "e", "d", " ", "C", "o", "t", "t", "o", "n", " ", "R", "o", "p", "e">>,
            <<"T", "w", "i", "s", "t", "e", "d", " ", "H", "a", "n", "d", "l", "e">>,
            <<"W", "e", "b", " ", "H", "a", "n", "d", "l", "e">>}
      [] f = <<"Product", "handleColor">> ->
           {<<"B", "e", "i", "g", "e">>,
            <<"B", "l", "a", "c", "k">>,
            <<"B", "r", "o", "w", "n">>,
            <<"N", "a", "v", "y", " ", "B", "l", "u", "e">>,
            <<"R", "e", "d">>,
            <<"W", "h", "i", "t", "e">>}
      [] f = <<"Product", "printingType">> ->
           {<<"D", "i", "g", "i", "t", "a", "l", " ", "P", "r", "i", "n", "t", "i", "n", "g">>,
            <<"E", "m", "b", "r", "o", "i", "d", "e", "r", "y">>,
            <<"F", "l", "e", "x", "o", "g", "r", "a", "p", "h", "y">>,
            <<"O", "f", "f", "s", "e", "t", " ", "P", "r", "i", "n", "t", "i", "n", "g">>,
            <<"S", "c", "r", "e", "e", "n", " ", "P", "r", "i", "n", "t", "i", "n", "g">>}
      [] f = <<"Product", "printColor">> ->
           {<<"B", "l", "a", "c", "k">>,
            <<"B", "r", "o", "w", "n">>,
            <<"G", "o", "l", "d">>,
            <<"G", "r", "e", "e", "n">>,
            <<"N", "a", "v", "y", " ", "B", "l", "u", "e">>,
            <<"R", "e", "d">>,
            <<"S", "i", "l", "v", "e", "r">>,
            <<"W", "h", "i", "t", "e">>}
      [] f = <<"Product", "color">> ->
           {<<"B", "l", "a", "c", "k">>,
            <<"B", "r", "o", "w", "n">>,
            <<"C", "r", "e", "a", "m">>,
            <<"G", "r", "a", "y">>,
            <<"G", "r", "e", "e", "n">>,
            <<"N", "a", "v", "y", " ", "B", "l", "u", "e">>,
            <<"R", "e", "d">>,
            <<"W", "h", "i", "t", "e">>}
      [] f = <<"Product", "sheetGSM">> -> {200, 250, 300, 350, 400, 450, 500}
      [] f = <<"Product", "borderGSM">> -> {50, 75, 90, 100, 120, 150}
      [] f = <<"Product", "handleGSM">> -> {100, 120, 150, 180, 200}
      [] f = <<"Order", "BagMaterial">> ->
           {<<"C", "o", "t", "t", "o", "n", " ", "B", "l", "e", "n", "d">>,
            <<"C", "o", "t", "t", "o", "n", " ", "C", "a", "n", "v", "a", "s">>,
            <<"J", "u", "t", "e">>,
            <<"L", "i", "n", "e", "n">>,
            <<"O", "r", "g", "a", "n", "i", "c", " ", "C", "o", "t", "t", "o", "n">>,
            <<"R", "e", "c", "y", "c", "l", "e", "d", " ", "P", "o", "l", "y", "e", "s", "t", "e", "r">>}
      [] f = <<"Order", "SheetColor">> ->
           {<<"B", "e", "i", "g", "e">>,
            <<"B", "r", "o", "w", "n">>,
            <<"C", "r", "e", "a", "m">>,
            <<"K", "r", "a", "f", "t">>,
            <<"M", "a", "r", "o", "o", "n">>,
            <<"N", "a", "t", "u", "r", "a", "l", " ", "W", "h", "i", "t", "e">>,
            <<"O", "f", "f", " ", "W", "h", "i", "t", "e">>}
      [] f = <<"Order", "BorderColor">> ->
           {<<"B", "l", "a", "c", "k">>,
            <<"B", "r", "o", "w", "n">>,
            <<"G", "o", "l", "d">>,
            <<"G", "r", "a", "y">>,
            <<"M", "a", "r", "o", "o", "n">>,
            <<"N", "a", "v", "y", " ", "B", "l", "u", "e">>,
            <<"R", "e", "d">>,
            <<"W", "h", "i", "t", "e">>}
      [] f = <<"Order", "HandleType">> ->
           {<<"B", "r", "a", "i", "d", "e", "d", " ", "H", "a", "n", "d", "l", "e">>,
            <<"D", "o", "u", "b", "l", "e", " ", "S", "t", "i", "t", "c", "h", "e", "d", " ", "C", "o", "t", "t", "o", "n", " ", "R", "o", "p", "e">>,
            <<"R", "i", "b", "b", "o", "n", " ", "H", "a", "n", "d", "l", "e">>,
            <<"S", "i", "n", "g", "l", "e", " ", "S", "t", "i", "t", "c", "h", "e", "d", " ", "C", "o", "t", "t", "o", "n", " ", "R", "o", "p", "e">>,
            <<"T", "w", "i", "s", "t", "e", "d", " ", "H", "a", "n", "d", "l", "e">>,
            <<"W", "e", "b", " ", "H", "a", "n", "d", "l", "e">>}
      [] f = <<"Order", "HandleColor">> ->
           {<<"B", "e", "i", "g", "e">>,
            <<"B", "l", "a", "c", "k">>,
            <<"B", "r", "o", "w", "n">>,
            <<"C", "r", "e", "a", "m">>,
            <<"G", "o", "l", "d">>,
            <<"M", "a", "r", "o", "o", "n">>,
            <<"N", "a", "v", "y", " ", "B", "l", "u", "e">>,
            <<"R", "e", "d">>,
            <<"W", "h", "i", "t", "e">>}
      [] f = <<"Order", "PrintingType">> ->
           {<<"D", "i", "g", "i", "t", "a", "l", " ", "P", "r", "i", "n", "t", "i", "n", "g">>,
            <<"E", "m", "b", "r", "o", "i", "d", "e", "r", "y">>,
            <<"F", "l", "e", "x", "o", "g", "r", "a", "p", "h", "y">>,
            <<"O", "f", "f", "s", "e", "t", " ", "P", "r", "i", "n", "t", "i", "n", "g">>,
            <<"S", "c", "r", "e", "e", "n", " ", "P", "r", "i", "n", "t", "i", "n", "g">>,
            <<"S", "t", "a", "m", "p", "i", "n", "g">>}
      [] f = <<"Order", "PrintColor">> ->
           {<<"B", "l", "a", "c", "k">>,
            <<"B", "r", "o", "w", "n">>,
            <<"G", "o", "l", "d">>,
            <<"G", "r", "e", "e", "n">>,
            <<"M", "a", "r", "o", "o", "n">>,
            <<"N", "a", "v", "y", " ", "B", "l", "u", "e">>,
            <<"R", "e", "d">>,
            <<"S", "i", "l", "v", "e", "r">>,
            <<"W", "h", "i", "t", "e">>}
      [] f = <<"Order", "Color">> ->
           {<<"B", "e", "i", "g", "e">>,
            <<"B", "l", "a", "c", "k">>,
            <<"B", "r", "o", "w", "n">>,
            <<"C", "r", "e", "a", "m">>,
            <<"G", "o", "l", "d">>,
            <<"G", "r", "a", "y">>,
            <<"G", "r", "e", "e", "n">>,
            <<"M", "a", "r", "o", "o", "n">>,
            <<"N", "a", "v", "y", " ", "B", "l", "u", "e">>,
            <<"R", "e", "d">>,
            <<"W", "h", "i", "t", "e">>}
      [] f = <<"Order", "SheetGSM">> -> {200, 250, 300, 350, 400, 450, 500}
      [] f = <<"Order", "BorderGSM">> -> {50, 75, 90, 100, 120, 150}
      [] f = <<"Order", "HandleGSM">> -> {100, 120, 150, 180, 200}

\* a field as its model declares it (str or a number, required or Optional,
\* max_length) and then its validator
ValidateField(f, v) ==
    LET NotAString == ValueError("Input should be a valid string")
        NotANumber == ValueError("Input should be a valid number")
    IN  CASE f = <<"Agent", "mobile">> -> IF IsNone(v) THEN NotAString ELSE validate_mobile(v)
          [] f = <<"Agent", "aadhar_Details">> -> IF IsNone(v) THEN NotAString ELSE validate_aadhar(v)
          [] f = <<"Party", "mobile1">> -> IF IsNone(v) THEN NotAString ELSE validate_mobile1(v)
          [] f = <<"Party", "mobile2">> -> validate_mobile2(v)
          [] f = <<"Party", "pincode">> ->
             IF ~IsNone(v) /\ Len(v.chars) > PincodeMaxLength
             THEN ValueError("String should have at most 10 characters")
             ELSE validate_pincode(v)
          [] f = <<"Party", "email">> -> validate_email(v)
          [] f = <<"Order", "Email">> -> IF IsNone(v) THEN NotAString ELSE Order_Email(v)
          [] f = <<"Product", "bagMaterial">> ->
             IF IsNone(v) THEN NotAString
             ELSE product_choice(v, "Bag material cannot be empty",
                                 "Invalid bag material. Must be one of: ", ValidSet(f))
          [] f = <<"Product", "sheetColor">> ->
             IF IsNone(v) THEN NotAString
             ELSE product_choice(v, "Sheet color cannot be empty",
                                 "Invalid sheet color. Must be one of: ", ValidSet(f))
          [] f = <<"Product", "borderColor">> ->
             IF IsNone(v) THEN NotAString
             ELSE product_choice(v, "Border color cannot be empty",
                                 "Invalid border color. Must be one of: ", ValidSet(f))
          [] f = <<"Product", "handleType">> ->
             IF IsNone(v) THEN NotAString
             ELSE product_choice(v, "Handle type cannot be empty",
                                 "Invalid handle type. Must be one of: ", ValidSet(f))
          [] f = <<"Product", "handleColor">> ->
             IF IsNone(v) THEN NotAString
             ELSE product_choice(v, "Handle color cannot be empty",
                                 "Invalid handle color. Must be one of: ", ValidSet(f))
          [] f = <<"Product", "printingType">> ->
             IF IsNone(v) THEN NotAString
             ELSE product_choice(v, "Printing type cannot be empty",
                                 "Invalid printing type. Must be one of: ", ValidSet(f))
          [] f = <<"Product", "printColor">> ->
             IF IsNone(v) THEN NotAString
             ELSE product_choice(v, "Print color cannot be empty",
                                 "Invalid print color. Must be one of: ", ValidSet(f))
          [] f = <<"Product", "color">> ->
             IF IsNone(v) THEN NotAString
             ELSE product_choice(v, "Color cannot be empty",
                                 "Invalid color. Must be one of: ", ValidSet(f))
          [] f = <<"Product", "sheetGSM">> ->
             IF IsNone(v) THEN NotANumber
             ELSE product_gsm(v, "Invalid sheet GSM. Must be one of: ", ValidSet(f))
          [] f = <<"Product", "borderGSM">> ->
             IF IsNone(v) THEN NotANumber
             ELSE product_gsm(v, "Invalid border GSM. Must be one of: ", ValidSet(f))
          [] f = <<"Product", "handleGSM">> ->
             IF IsNone(v) THEN NotANumber
             ELSE product_gsm(v, "Invalid handle GSM. Must be one of: ", ValidSet(f))
          [] f = <<"Order", "BagMaterial">> ->
             IF IsNone(v) THEN NotAString
             ELSE order_choice(v, "Invalid BagMaterial '{v}'. Must be one of: ", ValidSet(f))
          [] f = <<"Order", "SheetColor">> ->
             IF IsNone(v) THEN NotAString
             ELSE order_choice(v, "Invalid SheetColor '{v}'. Must be one of: ", ValidSet(f))
          [] f = <<"Order", "BorderColor">> ->
             IF IsNone(v) THEN NotAString
             ELSE order_choice(v, "Invalid BorderColor '{v}'. Must be one of: ", ValidSet(f))
          [] f = <<"Order", "HandleType">> ->
             IF IsNone(v) THEN NotAString
             ELSE order_choice(v, "Invalid HandleType '{v}'. Must be one of: ", ValidSet(f))
          [] f = <<"Order", "HandleColor">> ->
             IF IsNone(v) THEN NotAString
             ELSE order_choice(v, "Invalid HandleColor '{v}'. Must be one of: ", ValidSet(f))
          [] f = <<"Order", "PrintingType">> ->
             IF IsNone(v) THEN NotAString
             ELSE order_choice(v, "Invalid PrintingType '{v}'. Must be one of: ", ValidSet(f))
          [] f = <<"Order", "PrintColor">> ->
             IF IsNone(v) THEN NotAString
             ELSE order_choice(v, "Invalid PrintColor '{v}'. Must be one of: ", ValidSet(f))
          [] f = <<"Order", "Color">> ->
             IF IsNone(v) THEN NotAString
             ELSE order_choice(v, "Invalid Color '{v}'. Must be one of: ", ValidSet(f))
          [] f = <<"Account", "amount">> -> IF IsNone(v) THEN NotANumber ELSE Accepted(v)
          [] f = <<"Order", "Mobile1">> ->
             IF IsNone(v) THEN ValueError("Input should be a valid integer")
             ELSE Order_Mobile(v)
          [] f = <<"Order", "Mobile2">> -> IF IsNone(v) THEN Accepted(None) ELSE Order_Mobile(v)
          [] f = <<"Agent", "name">> ->
             IF IsNone(v) THEN NotAString
             ELSE IF ~str_field(v, 1, 255).ok THEN str_field(v, 1, 255)
             ELSE required_text(v, "Name", 2, 255, "alpha")
          [] f = <<"Agent", "address">> ->
             IF IsNone(v) THEN NotAString
             ELSE IF ~str_field(v, 1, 500).ok THEN str_field(v, 1, 500)
             ELSE required_text(v, "Address", 5, 500, "any")
          [] f = <<"Party", "partyName">> ->
             IF IsNone(v) THEN NotAString
             ELSE IF ~str_field(v, 1, 255).ok THEN str_field(v, 1, 255)
             ELSE required_text(v, "Party name", 2, 255, "any")
          [] f = <<"Party", "aliasOrCompanyName">> ->
             IF IsNone(v) THEN NotAString
             ELSE IF ~str_field(v, 1, 255).ok THEN str_field(v, 1, 255)
             ELSE required_text(v, "Alias or company name", 2, 255, "any")
          [] f = <<"Party", "contact_Person1">> ->
             IF IsNone(v) THEN NotAString
             ELSE IF ~str_field(v, 1, 255).ok THEN str_field(v, 1, 255)
             ELSE required_text(v, "Contact person 1 name", 2, 255, "person")
          [] f = <<"Party", "contact_Person2">> ->
             IF ~IsNone(v) /\ ~str_field(v, 0, 255).ok THEN str_field(v, 0, 255)
             ELSE optional_text(v, "Contact person 2 name", 2, 255, "person")
          [] f = <<"Party", "address">> ->
             IF ~IsNone(v) /\ ~str_field(v, 0, 500).ok THEN str_field(v, 0, 500)
             ELSE optional_text(v, "Address", 5, 500, "any")
          [] f = <<"Party", "city">> ->
             IF ~IsNone(v) /\ ~str_field(v, 0, 100).ok THEN str_field(v, 0, 100)
             ELSE optional_text(v, "City name", 2, 100, "any")
          [] f = <<"Party", "state">> ->
             IF ~IsNone(v) /\ ~str_field(v, 0, 100).ok THEN str_field(v, 0, 100)
             ELSE optional_text(v, "State name", 2, 100, "any")
          [] f = <<"Party", "orderId">> ->
             IF ~IsNone(v) /\ ~str_field(v, 0, 100).ok THEN str_field(v, 0, 100)
             ELSE optional_text(v, "Order ID", 0, 100, "any")
          [] f = <<"Product", "productType">> ->
             IF IsNone(v) THEN NotAString
             ELSE IF ~str_field(v, 1, 255).ok THEN str_field(v, 1, 255)
             ELSE required_text(v, "Product type", 2, 255, "any")
          [] f \in {<<"Order", "Party_Name">>, <<"Order", "AliasOrCompanyName">>,
                    <<"Order", "Address">>, <<"Order", "Contact_Person1">>} ->
             IF IsNone(v) THEN NotAString
             ELSE IF ~str_field(v, 1, 255).ok THEN str_field(v, 1, 255)
             ELSE Accepted(PyStr(v.chars))
          [] f \in {<<"Order", "City">>, <<"Order", "State">>} ->
             IF IsNone(v) THEN NotAString
             ELSE IF ~str_field(v, 1, 100).ok THEN str_field(v, 1, 100)
             ELSE Accepted(PyStr(v.chars))
          [] f = <<"Order", "Contact_Person2">> ->
             IF IsNone(v) THEN Accepted(None)
             ELSE IF ~str_field(v, 0, 255).ok THEN str_field(v, 0, 255)
             ELSE Accepted(PyStr(v.chars))
          [] f \in {<<"Account", "type">>, <<"Account", "description">>,
                    <<"Account", "partyName">>, <<"Account", "date">>} ->
             IF IsNone(v) THEN NotAString ELSE Accepted(PyStr(v.chars))
          [] f = <<"Product", "productSize">> ->
             IF IsNone(v) THEN NotANumber
             ELSE IF ~GreaterThan(v, 0) THEN ValueError("Input should be greater than 0")
             ELSE product_number(v, TRUE, 10000, "Product size must be greater than 0",
                                 "Product size seems too large (max 10000)")
          [] f = <<"Product", "quantity">> ->
             IF IsNone(v) THEN NotANumber
             ELSE IF v.flt < 0 THEN ValueError("Input should be greater than or equal to 0")
             ELSE product_number(v, FALSE, 10000000, "Quantity must be non-negative",
                                 "Quantity seems too large (max 10,000,000)")
          [] f = <<"Product", "plateBlockNumber">> ->
             IF IsNone(v) THEN NotANumber
             ELSE IF v.flt < 0 THEN ValueError("Input should be greater than or equal to 0")
             ELSE product_number(v, FALSE, 1000, "Plate block number must be non-negative",
                                 "Plate block number seems too large (max 1000)")
          [] f = <<"Product", "rate">> ->
             IF IsNone(v) THEN NotANumber
             ELSE IF ~GreaterThan(v, 0) THEN ValueError("Input should be greater than 0")
             ELSE validate_rate(v)
          [] f = <<"Order", "Rate">> ->
             IF IsNone(v) THEN NotANumber
             ELSE IF ~GreaterThan(v, 0) THEN ValueError("Input should be greater than 0")
             ELSE Accepted(v)
          [] f = <<"Order", "TotalAmount">> ->
             IF IsNone(v) THEN NotANumber
             ELSE IF (IF IsFine(v) THEN v.fine < 0 ELSE v.flt < 0)
             THEN ValueError("Input should be greater than or equal to 0")
             ELSE Accepted(v)
          [] f = <<"Account", "txnId">> ->
             IF IsNone(v) THEN Accepted(None)
             ELSE IF IsInt(v) THEN NotAString
             ELSE Accepted(PyStr(v.chars))
          [] f = <<"Order", "SheetGSM">> ->
             order_gsm(v, "Invalid SheetGSM '{v}'. Must be one of: ", ValidSet(f))
          [] f = <<"Order", "BorderGSM">> ->
             order_gsm(v, "Invalid BorderGSM '{v}'. Must be one of: ", ValidSet(f))
          [] f = <<"Order", "HandleGSM">> ->
             order_gsm(v, "Invalid HandleGSM '{v}'. Must be one of: ", ValidSet(f))

\* the request models: "create" is CreateAgent, CreateParty, CreateProduct,
\* CreateOrder, CreateAccountTxn and "update" is UpdateAgent, ... UpdateAccountTxn
Schemas == {"create", "update"}

\* the model of the request declares the field; the update model of an account
\* transaction has no txnId
Declared(schema, f) == schema = "update" => f # <<"Account", "txnId">>

\* request models that declare the same fields for create and for update
ValidateIn_sameFields(schema, f, v) == ValidateField(f, v)

\* a field of the request body under the model of the request: a field that the
\* model does not declare is ignored, whatever it holds
ValidateIn(schema, f, v) ==
    IF Declared(schema, f) THEN ValidateField(f, v) ELSE Accepted(None)

-----------------------------------------------------------------------------
(* The items the create and update handlers build from a validated payload *)

create_agent_item(agent_id, payload) ==
    [AgentId |-> IntV(agent_id),
     Name |-> payload.name,
     Mobile |-> payload.mobile,
     Aadhar_Details |-> payload.aadhar_Details,
     Address |-> payload.address]

update_agent_item(agent_id, payload) ==
    [AgentId |-> IntV(agent_id),
     Name |-> payload.name,
     Mobile |-> payload.mobile,
     Aadhar_Details |-> payload.aadhar_Details,
     Address |-> payload.address]

create_party_item(party_id, payload) ==
    [PartyId |-> IntV(party_id),
     PartyName |-> payload.partyName,
     AliasOrCompanyName |-> payload.aliasOrCompanyName,
     Contact_Person1 |-> payload.contact_Person1,
     Contact_Person2 |-> payload.contact_Person2,
     Mobile1 |-> payload.mobile1,
     Mobile2 |-> payload.mobile2,
     Email |-> payload.email,
     Address |-> payload.address,
     City |-> payload.city,
     State |-> payload.state,
     Pincode |-> payload.pincode,
     AgentId |-> payload.agentId,
     OrderId |-> payload.orderId]

update_party_item(party_id, payload) ==
    [PartyId |-> IntV(party_id),
     PartyName |-> payload.partyName,
     AliasOrCompanyName |-> payload.aliasOrCompanyName,
     Contact_Person1 |-> payload.contact_Person1,
     Contact_Person2 |-> payload.contact_Person2,
     Mobile1 |-> payload.mobile1,
     Mobile2 |-> payload.mobile2,
     Email |-> payload.email,
     Address |-> payload.address,
     City |-> payload.city,
     State |-> payload.state,
     Pincode |-> payload.pincode,
     AgentId |-> payload.agentId,
     OrderId |-> payload.orderId]

create_product_item(product_id, payload) ==
    [ProductId |-> IntV(product_id),
     ProductType |-> payload.productType,
     ProductSize |-> ddb_decimal(payload.productSize),
     BagMaterial |-> payload.bagMaterial,
     Quantity |-> ddb_decimal(payload.quantity),
     SheetGSM |-> ddb_decimal(payload.sheetGSM),
     SheetColor |-> payload.sheetColor,
     BorderGSM |-> ddb_decimal(payload.borderGSM),
     BorderColor |-> payload.borderColor,
     HandleType |-> payload.handleType,
     HandleColor |-> payload.handleColor,
     HandleGSM |-> ddb_decimal(payload.handleGSM),
     PrintingType |-> payload.printingType,
     PrintColor |-> payload.printColor,
     Color |-> payload.color,
     Design |-> payload.design,
     PlateBlockNumber |-> ddb_decimal(payload.plateBlockNumber),
     PlateAvailable |-> payload.plateAvailable,
     Rate |-> ddb_decimal(payload.rate)]

update_product_item(product_id, payload) ==
    [ProductId |-> IntV(product_id),
     ProductType |-> payload.productType,
     ProductSize |-> ddb_decimal(payload.productSize),
     BagMaterial |-> payload.bagMaterial,
     Quantity |-> ddb_decimal(payload.quantity),
     SheetGSM |-> ddb_decimal(payload.sheetGSM),
     SheetColor |-> payload.sheetColor,
     BorderGSM |-> ddb_decimal(payload.borderGSM),
     BorderColor |-> payload.borderColor,
     HandleType |-> payload.handleType,
     HandleColor |-> payload.handleColor,
     HandleGSM |-> ddb_decimal(payload.handleGSM),
     PrintingType |-> payload.printingType,
     PrintColor |-> payload.printColor,
     Color |-> payload.color,
     Design |-> payload.design,
     PlateBlockNumber |-> ddb_decimal(payload.plateBlockNumber),
     PlateAvailable |-> payload.plateAvailable,
     Rate |-> ddb_decimal(payload.rate)]

\* the transaction id that key k of the accounts collection stands for
TxnId(k) == StrV("TXN-" \o Join(Digits(k)))

create_account_item(txn_id, payload) ==
    [txnId |-> TxnId(txn_id),
     type |-> payload.type,
     description |-> payload.description,
     partyName |-> payload.partyName,
     date |-> payload.date,
     amount |-> ddb_decimal(payload.amount)]

\* {"txnId": txn_id, **payload.dict(), "amount": ddb_decimal(payload.amount)}
update_account_item(txn_id, payload) ==
    [f \in {"txnId"} \cup DOMAIN payload |->
        IF f = "txnId" THEN TxnId(txn_id)
        ELSE IF f = "amount" THEN ddb_decimal(payload.amount)
        ELSE payload[f]]

\* generate_order_id: the digits of the agent id followed by the last six digits
\* of the Unix time in seconds
generate_order_id(agent_id, timestamp) ==
    LET digits == Digits(timestamp)
        last6 == SubSeq(digits, IF Len(digits) > 6 THEN Len(digits) - 5 ELSE 1, Len(digits))
    IN  DigitsVal(Digits(agent_id) \o last6)

\* the item of create_order: PlateBlockNumber is an attribute only when it is
\* given and not 0
create_order_item(order_id, payload) ==
    LET item == [OrderId |-> IntV(order_id),
             AgentId |-> payload.AgentId,
             Party_Name |-> payload.Party_Name,
             AliasOrCompanyName |-> payload.AliasOrCompanyName,
             Address |-> payload.Address,
             City |-> payload.City,
             State |-> payload.State,
             Pincode |-> payload.Pincode,
             Contact_Person1 |-> payload.Contact_Person1,
             Contact_Person2 |-> payload.Contact_Person2,
             Mobile1 |-> payload.Mobile1,
             Mobile2 |-> payload.Mobile2,
             Email |-> payload.Email,
             ProductType |-> payload.ProductType,
             ProductId |-> payload.ProductId,
             ProductSize |-> payload.ProductSize,
             BagMaterial |-> payload.BagMaterial,
             Quantity |-> payload.Quantity,
             SheetGSM |-> payload.SheetGSM,
             SheetColor |-> payload.SheetColor,
             BorderGSM |-> payload.BorderGSM,
             BorderColor |-> payload.BorderColor,
             HandleType |-> payload.HandleType,
             HandleColor |-> payload.HandleColor,
             HandleGSM |-> payload.HandleGSM,
             PrintingType |-> payload.PrintingType,
             PrintColor |-> payload.PrintColor,
             Color |-> payload.Color,
             Design |-> payload.Design,
             Rate |-> ddb_decimal(payload.Rate),
             TotalAmount |-> ddb_decimal(payload.TotalAmount),
             PlateAvailable |-> payload.PlateAvailable]
    IN  IF Truthy(payload.PlateBlockNumber)
        THEN [a \in DOMAIN item \cup {"PlateBlockNumber"} |->
                 IF a = "PlateBlockNumber" THEN payload.PlateBlockNumber ELSE item[a]]
        ELSE item

\* the item of update_order
update_order_item(order_id, payload) ==
    LET item == [OrderId |-> IntV(order_id),
             AgentId |-> payload.AgentId,
             Party_Name |-> payload.Party_Name,
             AliasOrCompanyName |-> payload.AliasOrCompanyName,
             Address |-> payload.Address,
             City |-> payload.City,
             State |-> payload.State,
             Pincode |-> payload.Pincode,
             Contact_Person1 |-> payload.Contact_Person1,
             Contact_Person2 |-> payload.Contact_Person2,
             Mobile1 |-> payload.Mobile1,
             Mobile2 |-> payload.Mobile2,
             Email |-> payload.Email,
             ProductType |-> payload.ProductType,
             ProductId |-> payload.ProductId,
             ProductSize |-> payload.ProductSize,
             BagMaterial |-> payload.BagMaterial,
             Quantity |-> payload.Quantity,
             SheetGSM |-> payload.SheetGSM,
             SheetColor |-> payload.SheetColor,
             BorderGSM |-> payload.BorderGSM,
             BorderColor |-> payload.BorderColor,
             HandleType |-> payload.HandleType,
             HandleColor |-> payload.HandleColor,
             HandleGSM |-> payload.HandleGSM,
             PrintingType |-> payload.PrintingType,
             PrintColor |-> payload.PrintColor,
             Color |-> payload.Color,
             Design |-> payload.Design,
             Rate |-> ddb_decimal(payload.Rate),
             TotalAmount |-> ddb_decimal(payload.TotalAmount),
             PlateAvailable |-> payload.PlateAvailable]
    IN  IF Truthy(payload.PlateBlockNumber)
        THEN [a \in DOMAIN item \cup {"PlateBlockNumber"} |->
                 IF a = "PlateBlockNumber" THEN payload.PlateBlockNumber ELSE item[a]]
        ELSE item

\* the collections whose keys the allocator assigns
AllocEntities == {"Agent", "Party", "Product"}

Entities == AllocEntities \cup {"Account", "Order"}

KeyName(e) ==
    IF e = "Agent" THEN "AgentId"
    ELSE IF e = "Party" THEN "PartyId"
    ELSE IF e = "Product" THEN "ProductId"
    ELSE IF e = "Order" THEN "OrderId"
    ELSE "txnId"

CreateItem(e, id, payload) ==
    IF e = "Agent" THEN create_agent_item(id, payload)
    ELSE IF e = "Party" THEN create_party_item(id, payload)
    ELSE IF e = "Product" THEN create_product_item(id, payload)
    ELSE IF e = "Order" THEN create_order_item(id, payload)
    ELSE create_account_item(id, payload)

UpdateItem(e, id, payload) ==
    IF e = "Agent" THEN update_agent_item(id, payload)
    ELSE IF e = "Party" THEN update_party_item(id, payload)
    ELSE IF e = "Product" THEN update_product_item(id, payload)
    ELSE IF e = "Order" THEN update_order_item(id, payload)
    ELSE update_account_item(id, payload)

\* the body a create or update answers with, built from the item it has put
Normalize(e, item) ==
    IF e = "Agent" THEN normalize_agent_item(item)
    ELSE IF e = "Party" THEN normalize_party_item(item)
    ELSE IF e = "Product" THEN normalize_product_item(item)
    ELSE IF e = "Order" THEN convert_item_to_python(item)
    ELSE normalize_ddb_item(item)

-----------------------------------------------------------------------------
(* Sequential ID allocator *)

\* int(id) of a key read from an item
KeyInt(id) == IF IsDecimal(id) THEN IntOfDecimal(id).int ELSE id.int

\* the loop over the scanned items: the integer of every key that is truthy
RECURSIVE CollectIds(_, _)
CollectIds(items, key) ==
    IF items = <<>> THEN <<>>
    ELSE LET id == ItemGet(Head(items), key)
         IN  (IF Truthy(id) THEN <<KeyInt(id)>> ELSE <<>>) \o CollectIds(Tail(items), key)

\* max(ids) of a non-empty list
RECURSIVE MaxOf(_)
MaxOf(ids) ==
    IF Len(ids) = 1 THEN ids[1]
    ELSE LET m == MaxOf(Tail(ids)) IN IF ids[1] > m THEN ids[1] ELSE m

\* an allocator that returns the maximum itself
get_next_id_max(items, key) ==
    IF items = <<>> THEN 1
    ELSE LET ids == CollectIds(items, key)
         IN  IF ids # <<>> THEN MaxOf(ids) ELSE 1

\* an allocator that counts the items
get_next_id_count(items, key) == Len(items) + 1

get_next_id(items, key) ==
    IF items = <<>> THEN 1
    ELSE LET ids == CollectIds(items, key)
         IN  IF ids # <<>> THEN MaxOf(ids) + 1 ELSE 1

get_next_agent_id(items) == get_next_id(items, "AgentId")
get_next_party_id(items) == get_next_id(items, "PartyId")
get_next_product_id(items) == get_next_id(items, "ProductId")

Allocate(e, items) ==
    IF e = "Agent" THEN get_next_agent_id(items)
    ELSE IF e = "Party" THEN get_next_party_id(items)
    ELSE get_next_product_id(items)

-----------------------------------------------------------------------------
(* Validated payloads the handlers are called with *)

AgentPayloads ==
    {[name |-> StrV("Asha"),
      mobile |-> StrV("9876543210"),
      aadhar_Details |-> StrV("123412341234"),
      address |-> StrV("Pune 1")],
     [name |-> StrV("Ravi"),
      mobile |-> StrV("8000000001"),
      aadhar_Details |-> StrV("999988887777"),
      address |-> StrV("Delhi 2")]}

PartyPayloads ==
    {[partyName |-> StrV("Acme"),
      aliasOrCompanyName |-> StrV("Acme Co"),
      contact_Person1 |-> StrV("Anu"),
      contact_Person2 |-> StrV("Bina"),
      mobile1 |-> StrV("9876543210"),
      mobile2 |-> StrV("7000000002"),
      email |-> StrV("a@b.in"),
      address |-> StrV("MG Road"),
      city |-> StrV("Pune"),
      state |-> StrV("MH"),
      pincode |-> StrV("411001"),
      agentId |-> IntV(1),
      orderId |-> StrV("O7")],
     [partyName |-> StrV("Zen"),
      aliasOrCompanyName |-> StrV("Zen Ltd"),
      contact_Person1 |-> StrV("Om"),
      contact_Person2 |-> None,
      mobile1 |-> StrV("8000000001"),
      mobile2 |-> None,
      email |-> None,
      address |-> None,
      city |-> None,
      state |-> None,
      pincode |-> None,
      agentId |-> None,
      orderId |-> None]}

ProductPayloads ==
    {[productType |-> StrV("Tote"),
      productSize |-> FltV(1250),
      bagMaterial |-> StrV("Jute"),
      quantity |-> FltV(10000),
      sheetGSM |-> FltV(20000),
      sheetColor |-> StrV("Cream"),
      borderGSM |-> FltV(5000),
      borderColor |-> StrV("Red"),
      handleType |-> StrV("Web Handle"),
      handleColor |-> StrV("Red"),
      handleGSM |-> FltV(10000),
      printingType |-> StrV("Embroidery"),
      printColor |-> StrV("Gold"),
      color |-> StrV("Red"),
      design |-> BoolV(TRUE),
      plateBlockNumber |-> FltV(300),
      plateAvailable |-> BoolV(TRUE),
      rate |-> FltV(9950)],
     [productType |-> StrV("Sack"),
      productSize |-> FltV(800),
      bagMaterial |-> StrV("Linen"),
      quantity |-> FltV(0),
      sheetGSM |-> FltV(25000),
      sheetColor |-> StrV("Kraft"),
      borderGSM |-> FltV(7500),
      borderColor |-> StrV("Gray"),
      handleType |-> StrV("Web Handle"),
      handleColor |-> StrV("Black"),
      handleGSM |-> FltV(12000),
      printingType |-> StrV("Embroidery"),
      printColor |-> StrV("Red"),
      color |-> StrV("Black"),
      design |-> BoolV(FALSE),
      plateBlockNumber |-> FltV(0),
      plateAvailable |-> BoolV(FALSE),
      rate |-> FltV(50005)]}

AccountPayloads ==
    {[type |-> StrV("credit"),
      description |-> StrV("advance"),
      partyName |-> StrV("Acme"),
      date |-> StrV("2024-01-05"),
      amount |-> FltV(120050)],
     [type |-> StrV("debit"),
      description |-> StrV("freight"),
      partyName |-> StrV("Zen"),
      date |-> StrV("2024-02-10"),
      amount |-> FltV(7510)]}

\* two order payloads that differ in every field but the handle and the printing
OrderPayloads ==
    {[AgentId |-> IntV(7), Party_Name |-> StrV("Acme Traders"),
      AliasOrCompanyName |-> StrV("Acme"), Address |-> StrV("12 Mill Road"),
      City |-> StrV("Pune"), State |-> StrV("Maharashtra"), Pincode |-> IntV(411001),
      Contact_Person1 |-> StrV("Asha"), Contact_Person2 |-> StrV("Ravi"),
      Mobile1 |-> IntV(2012345678), Mobile2 |-> IntV(1999999999),
      Email |-> StrV("asha@acme.in"), ProductType |-> StrV("Shopping Bag"),
      ProductId |-> IntV(3), ProductSize |-> IntV(12), BagMaterial |-> StrV("Jute"),
      Quantity |-> IntV(100), SheetGSM |-> IntV(200), SheetColor |-> StrV("Cream"),
      BorderGSM |-> IntV(50), BorderColor |-> StrV("Red"),
      HandleType |-> StrV("Web Handle"), HandleColor |-> StrV("Red"),
      HandleGSM |-> IntV(100), PrintingType |-> StrV("Embroidery"),
      PrintColor |-> StrV("Gold"), Color |-> StrV("Red"), Design |-> BoolV(TRUE),
      PlateBlockNumber |-> IntV(3), PlateAvailable |-> BoolV(TRUE),
      Rate |-> FltV(9950), TotalAmount |-> FltV(995000)],
     [AgentId |-> IntV(12), Party_Name |-> StrV("Zen Stores"),
      AliasOrCompanyName |-> StrV("Zen"), Address |-> StrV("4 Lake View"),
      City |-> StrV("Indore"), State |-> StrV("Madhya Pradesh"), Pincode |-> IntV(452001),
      Contact_Person1 |-> StrV("Meera"), Contact_Person2 |-> None,
      Mobile1 |-> IntV(1000000000), Mobile2 |-> None,
      Email |-> StrV("meera@zen.co"), ProductType |-> StrV("Grocery Bag"),
      ProductId |-> IntV(5), ProductSize |-> IntV(8), BagMaterial |-> StrV("Linen"),
      Quantity |-> IntV(0), SheetGSM |-> IntV(250), SheetColor |-> StrV("Kraft"),
      BorderGSM |-> IntV(75), BorderColor |-> StrV("Gray"),
      HandleType |-> StrV("Web Handle"), HandleColor |-> StrV("Black"),
      HandleGSM |-> IntV(120), PrintingType |-> StrV("Embroidery"),
      PrintColor |-> StrV("Red"), Color |-> StrV("Black"), Design |-> BoolV(FALSE),
      PlateBlockNumber |-> None, PlateAvailable |-> BoolV(FALSE),
      Rate |-> FltV(50005), TotalAmount |-> FltV(0)]}

Payloads(e) ==
    IF e = "Agent" THEN AgentPayloads
    ELSE IF e = "Party" THEN PartyPayloads
    ELSE IF e = "Product" THEN ProductPayloads
    ELSE IF e = "Order" THEN OrderPayloads
    ELSE AccountPayloads

\* the payload the seeded records were created from: one that fills every field
SeedPayload(e) == CHOOSE pl \in Payloads(e) : \A f \in DOMAIN pl : pl[f] # None

-----------------------------------------------------------------------------
(* The collection *)

Req == 1..MaxReq
PathIds == 0..MaxSeedKey

\* table.get_item(Key=...).get("Item")
GetItem(t, k) == IF k \in DOMAIN t THEN t[k] ELSE None

\* a put that leaves an existing item alone
PutItemIfAbsent(t, k, item) ==
    [j \in DOMAIN t \cup {k} |-> IF j \in DOMAIN t THEN t[j] ELSE StoredItem(item)]

\* a put that merges: an attribute given as None keeps the value it had
PutItemMerge(t, k, item) ==
    [j \in DOMAIN t \cup {k} |->
        IF j # k THEN t[j]
        ELSE [a \in DOMAIN item |->
                IF item[a] = None /\ k \in DOMAIN t /\ a \in DOMAIN t[k] THEN t[k][a]
                ELSE StoredValue(item[a])]]

\* table.put_item(Item=item): the item replaces whatever the key held
PutItem(t, k, item) ==
    [j \in DOMAIN t \cup {k} |-> IF j = k THEN StoredItem(item) ELSE t[j]]

\* table.delete_item(Key=...): no error when the key is absent
DeleteItem(t, k) == [j \in DOMAIN t \ {k} |-> t[j]]

\* table.scan().get("Items", []): every item of a collection that fits in one page
\* of the scan, here in key order
RECURSIVE ItemsOf(_, _)
ItemsOf(t, ks) ==
    IF ks = {} THEN <<>>
    ELSE LET k == CHOOSE j \in ks : \A i \in ks : j <= i
         IN  <<t[k]>> \o ItemsOf(t, ks \ {k})

Scan(t) == ItemsOf(t, DOMAIN t)

NoReq ==
    [op |-> "none", pc |-> "idle", key |-> 0, payload |-> None,
     status |-> 0, body |-> None, scanV |-> 0, putV |-> 0, err |-> None]

\* a request that has ended with an HTTP status and a body
Done(r, st, b) == [r EXCEPT !.pc = "done", !.status = st, !.body = b]

\* the next unused request
Fresh(p) == req[p].op = "none" /\ \A q \in 1..(p - 1) : req[q].op # "none"

Started(o, k) == [NoReq EXCEPT !.op = o, !.key = k]

KeySpace == 0..(MaxSeedKey + MaxReq)

\* the routers of the allocator-keyed collections reject a path id <= 0 with 400
HasIdCheck(e) == e \in AllocEntities

\* the detail of the 404 and of the 400 of each router
NotFound(e) ==
    [detail |-> IF e = "Agent" THEN "Agent not found"
                ELSE IF e = "Party" THEN "Party not found"
                ELSE IF e = "Product" THEN "Product not found"
                ELSE IF e = "Order" THEN "Order {order_id} not found"
                ELSE "Transaction not found"]

BadId(e) ==
    [detail |-> IF e = "Agent" THEN "Agent ID must be a positive integer"
                ELSE IF e = "Party" THEN "Party ID must be a positive integer"
                ELSE "Product ID must be a positive integer"]

\* e.response["Error"] of the ClientError that a call to the store raises: the
\* table is not found when the first call of a request fails, the throughput is
\* exceeded when a later call fails
ClientError(first) ==
    IF first
    THEN [Code |-> "ResourceNotFoundException", Message |-> "Requested resource not found"]
    ELSE [Code |-> "ProvisionedThroughputExceededException", Message |-> "Rate exceeded"]

ClientErrors == {ClientError(TRUE), ClientError(FALSE)}

\* aws_error_detail(e), f"{code}: {msg}": the pieces the string is put together from
aws_error_detail(e) == <<e.Code, ": ", e.Message>>

\* a detail of the orders router that is put together like that of the others
orders_error_detail_withCode(e) == aws_error_detail(e)

\* f"DynamoDB Error: {e.response['Error']['Message']}" of the orders router
orders_error_detail(e) == <<"DynamoDB Error: ", e.Message>>

\* the body of the 500 that answers a ClientError
StorageError(e, error) ==
    [detail |-> IF e = "Order" THEN orders_error_detail(error) ELSE aws_error_detail(error)]

\* the request r ended by the ClientError error
Failed(r, error) == [Done(r, 500, StorageError(entity, error)) EXCEPT !.err = error]

\* the body of a successful DELETE: the products router echoes the id
Deleted(e, k) ==
    IF e = "Product" THEN [deleted |-> TRUE, productId |-> IntV(k)]
    ELSE [deleted |-> TRUE]

NoNum == [stage |-> "none", v |-> 0, enc |-> None, out |-> None]

NoForm == [stage |-> "none", schema |-> "none", field |-> <<>>, raw |-> None, value |-> None,
           status |-> 0, loc |-> <<>>, msg |-> "", valid |-> <<>>, stored |-> None,
           out |-> None]

otherVars == <<num, filters, result, scanItems, nextId, form>>

-----------------------------------------------------------------------------
(* The handlers. A handler is cut at its calls to the store: between two  *)
(* calls of one request, other requests may run. The payload is recorded  *)
(* where the handler first reads it, when it builds the item.             *)

\* POST: get_next_<entity>_id() has scanned the collection and returned
CreateScan(p) ==
    /\ Fresh(p)
    /\ entity \in AllocEntities
    /\ LET id == Allocate(entity, Scan(table))
       IN  /\ req' = [req EXCEPT ![p] =
                        [Started("create", id) EXCEPT !.pc = "put", !.scanV = writes]]
           /\ tomb' = tomb \ {id}
    /\ UNCHANGED <<entity, seed, table, writes, ver, otherVars>>

\* POST: put_item of the item built from the payload, then the response
CreatePut(p) ==
    /\ req[p].op = "create" /\ req[p].pc = "put"
    /\ \E pl \in Payloads(entity) :
         LET item == CreateItem(entity, req[p].key, pl)
         IN  /\ table' = PutItem(table, req[p].key, item)
             /\ req' = [req EXCEPT ![p] =
                          [Done(req[p], 200, Normalize(entity, item))
                             EXCEPT !.payload = pl, !.putV = writes + 1]]
    /\ writes' = writes + 1
    /\ ver' = [ver EXCEPT ![req[p].key] = writes + 1]
    /\ tomb' = tomb \ {req[p].key}
    /\ UNCHANGED <<entity, seed, otherVars>>

\* POST /accounts: the id is the payload's txnId or a generated one; one put_item
CreateAccount(p) ==
    /\ Fresh(p)
    /\ entity = "Account"
    /\ \E k \in 1..(MaxSeedKey + 1), pl \in Payloads(entity) :
         LET item == CreateItem(entity, k, pl)
         IN  /\ table' = PutItem(table, k, item)
             /\ req' = [req EXCEPT ![p] =
                          [Done(Started("create", k), 200, Normalize(entity, item))
                             EXCEPT !.payload = pl, !.scanV = writes, !.putV = writes + 1]]
             /\ ver' = [ver EXCEPT ![k] = writes + 1]
             /\ tomb' = tomb \ {k}
    /\ writes' = writes + 1
    /\ UNCHANGED <<entity, seed, otherVars>>

\* the Unix times, in seconds, at which orders are created
Clock == {1700000000, 1700000001, 1701000000}

\* POST /orders: the id is generated from the payload's AgentId and the time; one
\* put_item
CreateOrder(p) ==
    /\ Fresh(p)
    /\ entity = "Order"
    /\ \E pl \in Payloads(entity), now \in Clock :
         LET k == generate_order_id(pl.AgentId.int, now)
             item == CreateItem(entity, k, pl)
         IN  /\ table' = PutItem(table, k, item)
             /\ req' = [req EXCEPT ![p] =
                          [Done(Started("create", k), 200, Normalize(entity, item))
                             EXCEPT !.payload = pl, !.scanV = writes, !.putV = writes + 1]]
             /\ ver' = [j \in DOMAIN ver \cup {k} |-> IF j = k THEN writes + 1 ELSE ver[j]]
             /\ tomb' = tomb \ {k}
    /\ writes' = writes + 1
    /\ UNCHANGED <<entity, seed, otherVars>>

\* request bodies that break a rule of a field: [field, value]
BadBodies ==
    {<<<<"Agent", "mobile">>, CharsV(<<"1", "2", "3", "4", "5">>)>>,
     <<<<"Agent", "aadhar_Details">>, None>>,
     <<<<"Party", "pincode">>, CharsV(<<"1", "2", "3", "4", "5">>)>>,
     <<<<"Party", "email">>, CharsV(<<"a", "@", "b">>)>>,
     <<<<"Product", "bagMaterial">>, CharsV(<<"S", "i", "l", "k">>)>>,
     <<<<"Product", "sheetGSM">>, IntV(225)>>,
     <<<<"Order", "Email">>, CharsV(<<"a", "@", "b">>)>>,
     <<<<"Order", "SheetGSM">>, IntV(225)>>,
     <<<<"Order", "SheetGSM">>, None>>,
     <<<<"Account", "amount">>, None>>}

\* a service that validates the body inside the handler, after the id check and the
\* existence lookup of a PUT
RejectInHandler(p) ==
    /\ Fresh(p)
    /\ \E o \in {"create", "update"}, k \in PathIds, b \in BadBodies :
         LET res == ValidateField(b[1], b[2])
             r == [Started(o, k) EXCEPT !.payload = [field |-> b[1], raw |-> b[2]]]
         IN  /\ IF o = "create" THEN k = 0 ELSE TRUE
             /\ b[1][1] = entity
             /\ ~res.ok
             /\ req' = [req EXCEPT ![p] =
                          IF o = "update" /\ HasIdCheck(entity) /\ k <= 0
                          THEN Done(r, 400, BadId(entity))
                          ELSE IF o = "update" /\ GetItem(table, k) = None
                          THEN Done(r, 404, NotFound(entity))
                          ELSE IF res.raised = "ValueError"
                          THEN Done(r, 422, [loc |-> <<"body", b[1][2]>>, msg |-> res.msg])
                          ELSE Done(r, 500, [detail |-> "Internal Server Error"])]
    /\ UNCHANGED <<entity, seed, table, writes, ver, tomb, otherVars>>

\* POST or PUT with a body that does not pass the request model: the body is
\* decoded before the handler is called, so the handler does not run. A
\* validation error is answered 422; an exception of another kind raised while
\* the body is decoded is answered 500 by the server
Reject(p) ==
    /\ Fresh(p)
    /\ \E o \in {"create", "update"}, k \in PathIds, b \in BadBodies :
         LET res == ValidateField(b[1], b[2])
             r == [Started(o, k) EXCEPT !.payload = [field |-> b[1], raw |-> b[2]]]
         IN  /\ IF o = "create" THEN k = 0 ELSE TRUE
             /\ b[1][1] = entity
             /\ ~res.ok
             /\ req' = [req EXCEPT ![p] =
                          IF res.raised = "ValueError"
                          THEN Done(r, 422, [loc |-> <<"body", b[1][2]>>, msg |-> res.msg])
                          ELSE Done(r, 500, [detail |-> "Internal Server Error"])]
    /\ UNCHANGED <<entity, seed, table, writes, ver, tomb, otherVars>>

\* an update that skips the existence lookup: an upsert
UpdateCheckUpsert(p) ==
    /\ Fresh(p)
    /\ \E k \in PathIds :
         LET r == Started("update", k)
         IN  req' = [req EXCEPT ![p] =
                       IF HasIdCheck(entity) /\ k <= 0 THEN Done(r, 400, BadId(entity))
                       ELSE [r EXCEPT !.pc = "put"]]
    /\ UNCHANGED <<entity, seed, table, writes, ver, tomb, otherVars>>

\* PUT: the id check and the existence lookup
UpdateCheck(p) ==
    /\ Fresh(p)
    /\ \E k \in PathIds :
         LET r == Started("update", k)
         IN  req' = [req EXCEPT ![p] =
                       IF HasIdCheck(entity) /\ k <= 0 THEN Done(r, 400, BadId(entity))
                       ELSE IF GetItem(table, k) = None THEN Done(r, 404, NotFound(entity))
                       ELSE [r EXCEPT !.pc = "put", !.scanV = writes]]
    /\ UNCHANGED <<entity, seed, table, writes, ver, tomb, otherVars>>

\* PUT: put_item of the item built from the payload, then the response
UpdatePut(p) ==
    /\ req[p].op = "update" /\ req[p].pc = "put"
    /\ \E pl \in Payloads(entity) :
         LET item == UpdateItem(entity, req[p].key, pl)
         IN  /\ table' = PutItem(table, req[p].key, item)
             /\ req' = [req EXCEPT ![p] =
                          [Done(req[p], 200, Normalize(entity, item))
                             EXCEPT !.payload = pl, !.putV = writes + 1]]
    /\ writes' = writes + 1
    /\ ver' = [ver EXCEPT ![req[p].key] = writes + 1]
    /\ UNCHANGED <<entity, seed, tomb, otherVars>>

\* a DELETE that goes to delete_item without looking the record up
DeleteCheck_noLookup(p) ==
    /\ Fresh(p)
    /\ \E k \in PathIds :
         LET r == Started("delete", k)
         IN  req' = [req EXCEPT ![p] =
                       IF HasIdCheck(entity) /\ k <= 0 THEN Done(r, 400, BadId(entity))
                       ELSE [r EXCEPT !.pc = "del"]]
    /\ UNCHANGED <<entity, seed, table, writes, ver, tomb, otherVars>>

\* DELETE: the id check and the existence lookup
DeleteCheck(p) ==
    /\ Fresh(p)
    /\ \E k \in PathIds :
         LET r == Started("delete", k)
         IN  req' = [req EXCEPT ![p] =
                       IF HasIdCheck(entity) /\ k <= 0 THEN Done(r, 400, BadId(entity))
                       ELSE IF GetItem(table, k) = None THEN Done(r, 404, NotFound(entity))
                       ELSE [r EXCEPT !.pc = "del"]]
    /\ UNCHANGED <<entity, seed, table, writes, ver, tomb, otherVars>>

\* DELETE: delete_item, then the response
DeleteCall(p) ==
    /\ req[p].op = "delete" /\ req[p].pc = "del"
    /\ table' = DeleteItem(table, req[p].key)
    /\ req' = [req EXCEPT ![p] = [Done(req[p], 200, Deleted(entity, req[p].key)) EXCEPT !.putV = writes + 1]]
    /\ writes' = writes + 1
    /\ ver' = [ver EXCEPT ![req[p].key] = writes + 1]
    /\ tomb' = tomb \cup {req[p].key}
    /\ UNCHANGED <<entity, seed, otherVars>>

\* what GET /<entity>/{id} answers in the current state of the collection
GetResponse(e, t, k) ==
    IF HasIdCheck(e) /\ k <= 0 THEN [status |-> 400, body |-> BadId(e)]
    ELSE LET item == GetItem(t, k)
         IN  IF item = None THEN [status |-> 404, body |-> NotFound(e)]
             ELSE [status |-> 200, body |-> Normalize(e, item)]

\* GET of one record
Get(p) ==
    /\ Fresh(p)
    /\ entity # "Account"
    /\ \E k \in PathIds :
         LET resp == GetResponse(entity, table, k)
         IN  req' = [req EXCEPT ![p] = Done(Started("get", k), resp.status, resp.body)]
    /\ UNCHANGED <<entity, seed, table, writes, ver, tomb, otherVars>>

\* a filter that forgets the upper price bound
search_keeps_noMax(f, item) ==
    LET stored == ItemGet(item, "Rate")
        rate == IF IsDecimal(stored) THEN FloatOfDecimal(stored) ELSE stored
    IN  /\ ~(Truthy(f.color) /\ ItemGet(item, "Color") # f.color)
        /\ ~(f.design # None /\ ItemGet(item, "Design") # f.design)
        /\ ~(f.minPrice # None /\ (rate = None \/ rate.flt < f.minPrice.flt))

\* the filters of search_products applied to one scanned item: TRUE when it is kept
search_keeps(f, item) ==
    LET stored == ItemGet(item, "Rate")
        rate == IF IsDecimal(stored) THEN FloatOfDecimal(stored) ELSE stored
    IN  /\ ~(Truthy(f.productType) /\ ItemGet(item, "ProductType") # f.productType)
        /\ ~(Truthy(f.bagMaterial) /\ ItemGet(item, "BagMaterial") # f.bagMaterial)
        /\ ~(Truthy(f.sheetColor) /\ ItemGet(item, "SheetColor") # f.sheetColor)
        /\ ~(Truthy(f.borderColor) /\ ItemGet(item, "BorderColor") # f.borderColor)
        /\ ~(Truthy(f.handleColor) /\ ItemGet(item, "HandleColor") # f.handleColor)
        /\ ~(Truthy(f.printingType) /\ ItemGet(item, "PrintingType") # f.printingType)
        /\ ~(Truthy(f.printColor) /\ ItemGet(item, "PrintColor") # f.printColor)
        /\ ~(Truthy(f.color) /\ ItemGet(item, "Color") # f.color)
        /\ ~(f.design # None /\ ItemGet(item, "Design") # f.design)
        /\ ~(f.plateAvailable # None /\ ItemGet(item, "PlateAvailable") # f.plateAvailable)
        /\ ~(f.minPrice # None /\ (rate = None \/ rate.flt < f.minPrice.flt))
        /\ ~(f.maxPrice # None /\ (rate = None \/ rate.flt > f.maxPrice.flt))

\* the loop of search_products over the scanned items
RECURSIVE filtered_items(_, _)
filtered_items(f, items) ==
    IF items = <<>> THEN <<>>
    ELSE (IF search_keeps(f, Head(items)) THEN <<Head(items)>> ELSE <<>>)
             \o filtered_items(f, Tail(items))

\* POST /products/search: the body of the 200 response
search_products(f, items) ==
    LET kept == filtered_items(f, items)
    IN  [i \in 1..Len(kept) |-> normalize_product_item(kept[i])]

\* an allocator that answers a failed scan with the first id; the create goes on
\* to its put_item
FirstCallFallsBack(p) ==
    /\ Fresh(p)
    /\ \E o \in {"create", "update", "delete", "get"}, k \in PathIds, error \in {ClientError(TRUE)} :
         /\ IF o = "create" THEN k = 0 ELSE (HasIdCheck(entity) => k > 0)
         /\ o = "get" => entity # "Account"
         /\ req' = [req EXCEPT ![p] =
                      IF o = "create" /\ entity \in AllocEntities
                      THEN [Started(o, 1) EXCEPT !.pc = "put", !.scanV = writes]
                      ELSE Failed(Started(o, k), error)]
    /\ UNCHANGED <<entity, seed, table, writes, ver, tomb, otherVars>>

\* the first call to the store raises ClientError: the handler answers 500
FirstCallFails(p) ==
    /\ Fresh(p)
    /\ \E o \in {"create", "update", "delete", "get"}, k \in PathIds, error \in {ClientError(TRUE)} :
         /\ IF o = "create" THEN k = 0 ELSE (HasIdCheck(entity) => k > 0)
         /\ o = "get" => entity # "Account"
         /\ req' = [req EXCEPT ![p] = Failed(Started(o, k), error)]
    /\ UNCHANGED <<entity, seed, table, writes, ver, tomb, otherVars>>

\* put_item or delete_item raises ClientError: nothing is written, the handler answers 500
WriteFails(p) ==
    /\ req[p].pc \in {"put", "del"}
    /\ \E error \in {ClientError(FALSE)} : req' = [req EXCEPT ![p] = Failed(req[p], error)]
    /\ UNCHANGED <<entity, seed, table, writes, ver, tomb, otherVars>>

\* no request is between two calls to the store
Quiet == \A q \in Req : req[q].pc \in {"idle", "done"}

SeedTable(e, ks) == [k \in ks |-> StoredItem(CreateItem(e, k, SeedPayload(e)))]

\* the service starts on a collection that earlier creates have filled
Init ==
    /\ entity \in Entities
    /\ seed \in {1..n : n \in 0..MaxSeedKey}
    /\ table = SeedTable(entity, seed)
    /\ req = [p \in Req |-> NoReq]
    /\ writes = 0
    /\ ver = [k \in KeySpace |-> 0]
    /\ tomb = {}
    /\ num = NoNum
    /\ filters = None
    /\ result = <<>>
    /\ scanItems = <<>>
    /\ nextId = 0
    /\ form = NoForm

\* requests run concurrently on the worker threads and a call to the store may fail
Next ==
    \E p \in 1..MaxConc :
        \/ CreateScan(p)
        \/ CreatePut(p)
        \/ CreateAccount(p)
        \/ CreateOrder(p)
        \/ UpdateCheck(p)
        \/ UpdatePut(p)
        \/ DeleteCheck(p)
        \/ DeleteCall(p)
        \/ Get(p)
        \/ Reject(p)
        \/ FirstCallFails(p)
        \/ WriteFails(p)

Spec == Init /\ [][Next]_vars

\* the same start, on a collection whose keys the allocator assigns
InitAlloc == Init /\ entity \in AllocEntities

\* requests run one at a time: a request begins when no other is in its handler
NextSerial ==
    \E p \in Req :
        \/ Quiet /\ CreateScan(p)
        \/ CreatePut(p)
        \/ Quiet /\ UpdateCheck(p)
        \/ UpdatePut(p)
        \/ Quiet /\ DeleteCheck(p)
        \/ DeleteCall(p)
        \/ Quiet /\ Get(p)

SpecSerial == InitAlloc /\ [][NextSerial]_vars

\* the requests that change the keys of the collection, run concurrently
NextRace ==
    \E p \in Req :
        \/ CreateScan(p)
        \/ CreatePut(p)
        \/ DeleteCheck(p)
        \/ DeleteCall(p)

SpecRace == InitAlloc /\ [][NextRace]_vars

\* creates, updates and deletes of an allocator-keyed collection, run concurrently
NextKeys ==
    \E p \in Req :
        \/ CreateScan(p)
        \/ CreatePut(p)
        \/ UpdateCheck(p)
        \/ UpdatePut(p)
        \/ DeleteCheck(p)
        \/ DeleteCall(p)

SpecKeys == InitAlloc /\ [][NextKeys]_vars

-----------------------------------------------------------------------------
(* Numeric normalisation on its own: a float is encoded, stored and decoded *)

Cents == (-MaxCents)..MaxCents

InitCrudIdle ==
    /\ seed = {}
    /\ table = SeedTable(entity, seed)
    /\ req = [p \in Req |-> NoReq]
    /\ writes = 0
    /\ ver = [k \in KeySpace |-> 0]
    /\ tomb = {}

InitNum ==
    /\ entity = "Product"
    /\ InitCrudIdle
    /\ \E v \in Cents : num = [NoNum EXCEPT !.stage = "input", !.v = v]
    /\ filters = None
    /\ result = <<>>
    /\ scanItems = <<>>
    /\ nextId = 0
    /\ form = NoForm

\* ddb_decimal(payload.<field>) while the item is built
Encode ==
    /\ num.stage = "input"
    /\ num' = [num EXCEPT !.stage = "encoded", !.enc = ddb_decimal(FltV(num.v))]
    /\ UNCHANGED <<crudVars, searchVars, allocVars, validVars>>

\* put_item then get_item: the attribute as the store returns it
StoreAndRead ==
    /\ num.stage = "encoded"
    /\ num' = [num EXCEPT !.stage = "stored", !.enc = StoredValue(num.enc)]
    /\ UNCHANGED <<crudVars, searchVars, allocVars, validVars>>

\* normalize_ddb_item on the item just built or on the item read back
DecodeItem ==
    /\ num.stage \in {"encoded", "stored"}
    /\ num' = [num EXCEPT !.stage = "decoded",
                          !.out = normalize_ddb_item([amount |-> num.enc]).amount]
    /\ UNCHANGED <<crudVars, searchVars, allocVars, validVars>>

\* convert_decimal of normalize_product_item, on either item
DecodeProduct ==
    /\ num.stage \in {"encoded", "stored"}
    /\ num' = [num EXCEPT !.stage = "decoded",
                          !.out = normalize_product_item([ProductId |-> IntV(1),
                                                          Rate |-> num.enc]).rate]
    /\ UNCHANGED <<crudVars, searchVars, allocVars, validVars>>

\* convert_item_to_python of the order handlers, on either item
DecodeOrder ==
    /\ num.stage \in {"encoded", "stored"}
    /\ num' = [num EXCEPT !.stage = "converted",
                          !.out = convert_item_to_python([OrderId |-> IntV(1),
                                                          Rate |-> num.enc]).Rate]
    /\ UNCHANGED <<crudVars, searchVars, allocVars, validVars>>

NextNum == Encode \/ StoreAndRead \/ DecodeItem \/ DecodeProduct \/ DecodeOrder

SpecNum == InitNum /\ [][NextNum]_vars

-----------------------------------------------------------------------------
(* The allocator on its own, over the Items a scan can return *)

\* the key attribute of a scanned item: missing, zero, an integer or a fraction
ScanKeys == {None, DecV(0, 0), DecV(25, -1)} \cup {DecV(k, 0) : k \in 1..MaxKeyVal}

ScannedItem(e, key) ==
    IF key = None THEN [a \in {"Name"} |-> StrV("legacy")]
    ELSE [a \in {KeyName(e), "Name"} |-> IF a = "Name" THEN StrV("Asha") ELSE key]

InitScan ==
    /\ entity \in AllocEntities
    /\ InitCrudIdle
    /\ num = NoNum
    /\ filters = None
    /\ result = <<>>
    /\ \E n \in 0..MaxScan : \E ks \in [1..n -> ScanKeys] :
         /\ \A i, j \in 1..n : (i # j /\ ks[i] # None) => ks[i] # ks[j]
         /\ scanItems = [i \in 1..n |-> ScannedItem(entity, ks[i])]
    /\ nextId = 0
    /\ form = NoForm

\* get_next_<entity>_id() returns
AllocatorReturns ==
    /\ nextId = 0
    /\ nextId' = Allocate(entity, scanItems)
    /\ UNCHANGED <<crudVars, numVars, searchVars, scanItems, validVars>>

NextScan == AllocatorReturns

SpecAlloc == InitScan /\ [][NextScan]_vars

-----------------------------------------------------------------------------
(* Product search on its own, over a collection of created products *)

SearchColors == {StrV("Red"), StrV("Black")}
SearchRates == {FltV(10000), FltV(50000)}

BasePayload == CHOOSE pl \in ProductPayloads : pl.design = BoolV(TRUE)

\* the kinds of product in the collection: every colour at every rate, and a
\* record written before Color and Rate were attributes
PoolKinds == (SearchColors \X SearchRates) \cup {<<None, None>>}

PoolItem(k, kind) ==
    IF kind = <<None, None>>
    THEN [ProductId |-> IntV(k), ProductType |-> StrV("Tote"), Design |-> BoolV(FALSE)]
    ELSE create_product_item(k, [BasePayload EXCEPT !.color = kind[1], !.rate = kind[2]])

NoFilter ==
    [productType |-> None, bagMaterial |-> None, sheetColor |-> None,
     borderColor |-> None, handleColor |-> None, printingType |-> None,
     printColor |-> None, color |-> None, design |-> None,
     plateAvailable |-> None, minPrice |-> None, maxPrice |-> None]

\* the SearchProduct bodies tried
SearchFilters ==
    {[NoFilter EXCEPT !.color = c, !.design = d, !.minPrice = lo, !.maxPrice = hi] :
        c \in {None, StrV("")} \cup SearchColors,
        d \in {None, BoolV(TRUE), BoolV(FALSE)},
        lo \in {None, FltV(0), FltV(20000)},
        hi \in {None, FltV(20000)}}

InitSearch ==
    /\ entity = "Product"
    /\ \E n \in 0..MaxPool :
         /\ seed = 1..n
         /\ \E kinds \in [1..n -> PoolKinds] :
              table = [k \in 1..n |-> StoredItem(PoolItem(k, kinds[k]))]
    /\ req = [p \in Req |-> NoReq]
    /\ writes = 0
    /\ ver = [k \in KeySpace |-> 0]
    /\ tomb = {}
    /\ num = NoNum
    /\ filters = None
    /\ result = <<>>
    /\ scanItems = <<>>
    /\ nextId = 0
    /\ form = NoForm

\* POST /products/search
Search ==
    /\ filters = None
    /\ \E f \in SearchFilters :
         /\ filters' = f
         /\ result' = search_products(f, Scan(table))
    /\ UNCHANGED <<crudVars, numVars, allocVars, validVars>>

NextSearch == Search

SpecSearch == InitSearch /\ [][NextSearch]_vars

-----------------------------------------------------------------------------
(* Listing a collection whose record lacks attributes or holds nulls *)

\* how many attributes of the stored record are missing or null, at most
MaxGaps == 2

\* the collection holds one complete record
InitList ==
    /\ entity \in Entities
    /\ seed = {1}
    /\ table = SeedTable(entity, seed)
    /\ req = [p \in Req |-> NoReq]
    /\ writes = 0
    /\ ver = [k \in KeySpace |-> 0]
    /\ tomb = {}
    /\ num = NoNum
    /\ filters = None
    /\ result = <<>>
    /\ scanItems = <<>>
    /\ nextId = 0
    /\ form = NoForm

\* another writer to the table (a seed script, an earlier version of the service)
\* leaves an attribute other than the key out of the record, or stores it as null
WriterLeavesGap ==
    /\ result = <<>>
    /\ LET item == table[1]
           gaps == Cardinality(DOMAIN SeedTable(entity, seed)[1]) - Cardinality(DOMAIN item)
                      + Cardinality({a \in DOMAIN item : item[a] = None})
       IN  /\ gaps < MaxGaps
           /\ \E a \in DOMAIN item \ {KeyName(entity)} :
                 \/ table' = [table EXCEPT ![1] = [b \in DOMAIN item \ {a} |-> item[b]]]
                 \/ /\ item[a] # None
                    /\ table' = [table EXCEPT ![1] = [item EXCEPT ![a] = None]]
    /\ UNCHANGED <<entity, seed, req, writes, ver, tomb, otherVars>>

\* GET of the collection: the scanned items, each decoded
ListAll ==
    /\ result = <<>>
    /\ result' = [i \in 1..Len(Scan(table)) |-> Normalize(entity, Scan(table)[i])]
    /\ UNCHANGED <<crudVars, numVars, filters, allocVars, validVars>>

NextList == WriterLeavesGap \/ ListAll

SpecList == InitList /\ [][NextList]_vars

-----------------------------------------------------------------------------
(* Validation of one field of a request body, and the accepted value stored *)
(* and returned                                                             *)

\* the number of digits a digit-string field asks for
Required(f) ==
    CASE f[2] \in {"mobile", "mobile1", "mobile2"} -> MobileDigits
      [] f[2] = "aadhar_Details" -> AadharDigits
      [] f[2] = "pincode" -> PincodeDigits

\* the inputs of a field, absent (None) among them.
\* A digit string: '12345', and numbers of up to MaxSlack digits fewer or more than
\* the field asks for, or of no digit, that start with 0, 1 or 9 and go on 8, 7,
\* 6, ... ("9876543210"), written plain, padded, with hyphens (' 98-765-432-10 '),
\* grouped, with a letter, after a tab, and with a space after every digit.
\* A text: empty, blank, 'Om' plain and padded, 'MG Road', 'Plot 7'.
\* A size, a quantity, a plate block number, a rate, a total: -1, -0.01, 0, 0.01, 0.5, 12.34, and
\* the field's upper bound less 0.01, as it is, and plus 0.01 (1,000,000 taken for
\* the order fields, which have none).
\* A transaction id: empty, 'TXN-1' and the number 7.
\* An order mobile: integers of nine and of ten digits that start with 1 or 2.
\* A categorical: empty, blank, 'Silk', every value of every allow-list as it is and
\* with a space before and after it; a GSM: every GSM value, 0 and 225 as an int,
\* as a float and with a half added.
\* An email: blank, 'not-an-email', and every address put together from a local
\* part, '@' signs, a domain, an ending, as it is, after a space, before a space
\* or a newline.
Inputs(f) ==
    LET Core(first, n) ==
            [i \in 1..n |-> IF i = 1 THEN DigitChar(first) ELSE DigitChar((20 - i) % 10)]
        RECURSIVE Interleave(_, _, _)
        Interleave(cs, i, sep) ==
            IF i > Len(cs) THEN <<>>
            ELSE <<cs[i]>> \o (IF i % 3 = 2 /\ i < Len(cs) THEN <<sep>> ELSE <<>>)
                           \o Interleave(cs, i + 1, sep)
        Shape(sh, cs) ==
            CASE sh = "plain" -> cs
              [] sh = "padded" -> <<" ">> \o cs \o <<" ">>
              [] sh = "hyphens" -> <<" ">> \o Interleave(cs, 1, "-") \o <<" ">>
              [] sh = "grouped" -> Interleave(cs, 1, " ")
              [] sh = "letter" -> cs \o <<"a">>
              [] sh = "tab" -> <<"\t">> \o cs
              [] sh = "spread" ->
                   [i \in 1..(2 * Len(cs)) |-> IF i % 2 = 1 THEN cs[(i + 1) \div 2] ELSE " "]
        Shapes == {"plain", "padded", "hyphens", "grouped", "letter", "tab", "spread"}
        StrValues == UNION {ValidSet(g) : g \in {h \in Fields : FieldKind(h) = "choice"}}
        GsmValues ==
            UNION {ValidSet(g) : g \in {h \in Fields : FieldKind(h) = "gsm"}} \cup {0, 225}
        Locals == {<<>>, <<"U", "s", "e", "r">>, <<"a", "!", "b">>, <<"a", " ", "b">>}
        Ats == {<<>>, <<"@">>, <<"@", "@">>}
        Domains == {<<>>, <<"E", "x", "a", "m", "p", "l", "e">>, <<"b", ".">>, <<"-">>}
        Tlds == {<<>>, <<".">>, <<".", "c">>, <<".", "C", "O", "M">>, <<".", "c", "1">>}
        Ends == {<<>>, <<" ">>, <<"\n">>}
    IN  {None} \cup
        CASE FieldKind(f) = "digits" ->
               {CharsV(<<"1", "2", "3", "4", "5">>)}
                   \cup {CharsV(Shape(sh, Core(d, n))) :
                           sh \in Shapes, d \in {0, 1, 9},
                           n \in {0} \cup ((Required(f) - MaxSlack)..(Required(f) + MaxSlack))}
          [] FieldKind(f) = "choice" ->
               {CharsV(<<>>), CharsV(<<" ">>), CharsV(<<"S", "i", "l", "k">>)}
                   \cup {CharsV(s) : s \in StrValues}
                   \cup {CharsV(<<" ">> \o s \o <<" ">>) : s \in StrValues}
          [] FieldKind(f) = "gsm" ->
               {IntV(n) : n \in GsmValues} \cup {FltV(100 * n) : n \in GsmValues}
                   \cup {FltV(100 * n + 50) : n \in GsmValues}
          [] FieldKind(f) = "number" -> {FltV(n) : n \in {0, 7510, 120050}}
          [] FieldKind(f) = "text" ->
               {CharsV(cs) : cs \in {<<>>, <<" ">>, <<" ", "\t", " ">>, <<"O", "m">>,
                                     <<" ", "O", "m", " ">>, <<"M", "G", " ", "R", "o", "a", "d">>,
                                     <<"P", "l", "o", "t", " ", "7">>}}
          [] FieldKind(f) = "quantity" ->
               LET max == CASE f[2] = "productSize" -> 10000
                            [] f[2] = "quantity" -> 10000000
                            [] f[2] = "plateBlockNumber" -> 1000
                            [] f[2] \in {"rate", "Rate", "TotalAmount"} -> 1000000
               IN  {FltV(h) : h \in {-100, -1, 0, 1, 50, 1234, 100 * max - 1, 100 * max,
                                     100 * max + 1}}
          [] FieldKind(f) = "key" ->
               {CharsV(<<>>), CharsV(<<"T", "X", "N", "-", "1">>), IntV(7)}
          [] FieldKind(f) = "mobile_int" ->
               {IntV(n) : n \in {0, 123456789, 999999999, 1000000000, 1234567890,
                                 1999999999, 2000000000, 2012345678, 2147483647}}
          [] FieldKind(f) = "email" ->
               {CharsV(<<" ">>),
                CharsV(<<"n", "o", "t", "-", "a", "n", "-", "e", "m", "a", "i", "l">>)}
                   \cup {CharsV(pre \o l \o a \o d \o t \o e) :
                           pre \in {<<>>, <<" ">>}, l \in Locals, a \in Ats,
                           d \in Domains, t \in Tlds, e \in Ends}

\* the attribute of the stored item that holds the field: the field's name with a
\* capital first letter; an order's fields have the names of the attributes
FieldAttr(f) ==
    IF f[1] \in {"Order", "Account"} THEN f[2]
    ELSE
    CASE f[2] = "mobile" -> "Mobile"
      [] f[2] = "aadhar_Details" -> "Aadhar_Details"
      [] f[2] = "mobile1" -> "Mobile1"
      [] f[2] = "mobile2" -> "Mobile2"
      [] f[2] = "pincode" -> "Pincode"
      [] f[2] = "email" -> "Email"
      [] f[2] = "bagMaterial" -> "BagMaterial"
      [] f[2] = "sheetColor" -> "SheetColor"
      [] f[2] = "borderColor" -> "BorderColor"
      [] f[2] = "handleType" -> "HandleType"
      [] f[2] = "handleColor" -> "HandleColor"
      [] f[2] = "printingType" -> "PrintingType"
      [] f[2] = "printColor" -> "PrintColor"
      [] f[2] = "color" -> "Color"
      [] f[2] = "sheetGSM" -> "SheetGSM"
      [] f[2] = "borderGSM" -> "BorderGSM"
      [] f[2] = "handleGSM" -> "HandleGSM"
      [] f[2] = "name" -> "Name"
      [] f[2] = "address" -> "Address"
      [] f[2] = "partyName" -> "PartyName"
      [] f[2] = "aliasOrCompanyName" -> "AliasOrCompanyName"
      [] f[2] = "contact_Person1" -> "Contact_Person1"
      [] f[2] = "contact_Person2" -> "Contact_Person2"
      [] f[2] = "city" -> "City"
      [] f[2] = "state" -> "State"
      [] f[2] = "orderId" -> "OrderId"
      [] f[2] = "productType" -> "ProductType"
      [] f[2] = "productSize" -> "ProductSize"
      [] f[2] = "quantity" -> "Quantity"
      [] f[2] = "plateBlockNumber" -> "PlateBlockNumber"
      [] f[2] = "rate" -> "Rate"

InitValid ==
    /\ \E f \in Fields : \E v \in Inputs(f) : \E schema \in Schemas :
         /\ entity = f[1]
         /\ form = [stage |-> "input", schema |-> schema, field |-> f, raw |-> v, value |-> None,
                    status |-> 0, loc |-> <<>>, msg |-> "", valid |-> <<>>, stored |-> None,
                    out |-> None]
    /\ InitCrudIdle
    /\ num = NoNum
    /\ filters = None
    /\ result = <<>>
    /\ scanItems = <<>>
    /\ nextId = 0

\* the request body is decoded: the field passes with its validated value, or the
\* request is answered 422 with the error located at the field, or an exception
\* that is not a validation error ends the request with 500
Validate ==
    /\ form.stage = "input"
    /\ LET res == ValidateIn(form.schema, form.field, form.raw)
       IN  form' = IF res.ok
                   THEN [form EXCEPT !.stage = "accepted", !.value = res.value]
                   ELSE IF res.raised = "ValueError"
                   THEN [form EXCEPT !.stage = "rejected", !.status = 422,
                                     !.loc = <<"body", form.field[2]>>, !.msg = res.msg,
                                     !.valid = res.valid]
                   ELSE [form EXCEPT !.stage = "failed", !.status = 500,
                                     !.msg = "Internal Server Error"]
    /\ UNCHANGED <<crudVars, numVars, searchVars, allocVars>>

\* the handler builds the item from the validated payload, puts it, and the item
\* read back is normalised into the response; the key of an account transaction is
\* not taken from the validated field here
StoreAndReturn ==
    /\ form.stage = "accepted"
    /\ entity \in Entities
    /\ FieldKind(form.field) # "key"
    /\ LET payload == [SeedPayload(entity) EXCEPT ![form.field[2]] = form.value]
           item == StoredItem(IF form.schema = "create" THEN CreateItem(entity, 1, payload)
                              ELSE UpdateItem(entity, 1, payload))
       IN  form' = [form EXCEPT !.stage = "returned",
                                !.stored = item[FieldAttr(form.field)],
                                !.out = Normalize(entity, item)[form.field[2]]]
    /\ UNCHANGED <<crudVars, numVars, searchVars, allocVars>>

NextValid == Validate \/ StoreAndReturn

SpecValid == InitValid /\ [][NextValid]_vars

-----------------------------------------------------------------------------
(* Validation of an amount of money *)

\* the fields that hold an amount of money
CurrencyFields ==
    {<<"Product", "rate">>, <<"Order", "Rate">>, <<"Order", "TotalAmount">>,
     <<"Account", "amount">>}

\* amounts of at most two decimal places, 0.01 ... 1000000, and of more: 1.234,
\* 0.001235, 0.00012, 0.0001, 0.000099, 0.000015, 0.00001, 0.000005, 0.000001
Amounts ==
    {FltV(h) : h \in {1, 10, 500, 1234, 5050, 99999999, 100000000}}
        \cup {FineV(m) : m \in {1234000, 1235, 120, 100, 99, 15, 10, 5, 1}}

InitMoney ==
    /\ \E f \in CurrencyFields : \E v \in Amounts : \E schema \in Schemas :
         /\ entity = f[1]
         /\ form = [NoForm EXCEPT !.stage = "input", !.schema = schema, !.field = f,
                                  !.raw = v]
    /\ InitCrudIdle
    /\ num = NoNum
    /\ filters = None
    /\ result = <<>>
    /\ scanItems = <<>>
    /\ nextId = 0

NextMoney == Validate

SpecMoney == InitMoney /\ [][NextMoney]_vars

-----------------------------------------------------------------------------
(* Properties *)

Ok200(p) == req[p].pc = "done" /\ req[p].status = 200
Created(p) == req[p].op = "create" /\ Ok200(p)
Scanned(p) == req[p].op = "create" /\ req[p].pc \in {"put", "done"}
Updated(p) == req[p].op = "update" /\ Ok200(p)

\* the request, of two, whose write the store applied last
LaterOf(p, q) == IF req[p].putV > req[q].putV THEN p ELSE q

\* C1: from an empty collection, with requests run one at a time and no delete
\* performed, the k-th successful create is assigned id k.
SerialCreatesCountUp ==
    (seed = {} /\ \A q \in Req : ~(req[q].op = "delete" /\ Ok200(q)))
        => \A p \in Req :
              Created(p) => req[p].key = Cardinality({q \in 1..p : Created(q)})

SerialCreatesCountUpWitness ==
    /\ seed = {}
    /\ \A p \in 1..3 : Created(p) /\ req[p].key = p

\* C2, as stated: two creates that both scan before either puts are assigned
\* the same id.
OverlappingCreatesShareId ==
    \A p, q \in Req :
        (p # q /\ Created(p) /\ Created(q)
              /\ req[p].scanV < req[q].putV /\ req[q].scanV < req[p].putV)
            => req[p].key = req[q].key

\* C2, amended: two creates that both scan before either puts, with no other put
\* or delete applied between the two scans, are assigned the same id; both answer
\* 200; and once both have put, until a later write to that id, the collection
\* holds under it the record of whichever put ran last.
SameScanCreatesCollide ==
    \A p, q \in Req :
        (p # q /\ Scanned(p) /\ Scanned(q) /\ req[p].scanV = req[q].scanV)
            => /\ req[p].key = req[q].key
               /\ req[p].pc = "done" => req[p].status = 200
               /\ (Created(p) /\ Created(q) /\ ver[req[p].key] = req[LaterOf(p, q)].putV)
                     => /\ req[p].key \in DOMAIN table
                        /\ table[req[p].key] =
                              StoredItem(CreateItem(entity, req[p].key,
                                                    req[LaterOf(p, q)].payload))

SameScanCreatesCollideWitness ==
    \E p, q \in Req :
        /\ Created(p) /\ Created(q)
        /\ req[p].scanV = req[q].scanV
        /\ req[p].key = req[q].key
        /\ req[p].putV < req[q].putV
        /\ req[p].payload # req[q].payload
        /\ ver[req[q].key] = req[q].putV
        /\ Cardinality(DOMAIN table) = Cardinality(seed) + 1
        /\ table[req[q].key] = StoredItem(CreateItem(entity, req[q].key, req[q].payload))

\* C3: over a serialized sequence of creates and deletes, each newly assigned id
\* is strictly greater than every id assigned earlier.
AssignedIdsIncrease ==
    \A p, q \in Req : (p < q /\ Scanned(p) /\ Scanned(q)) => req[p].key < req[q].key

\* the valid keys of the scanned items, coerced to integers
ValidKeys ==
    {KeyInt(ItemGet(scanItems[i], KeyName(entity))) :
        i \in {j \in 1..Len(scanItems) : Truthy(ItemGet(scanItems[j], KeyName(entity)))}}

\* C4: the allocator returns 1 when the scan holds no item with a valid key, and
\* otherwise the maximum of the keys, coerced to integers, plus 1.
AllocatorReturnsMaxPlusOne ==
    nextId # 0 =>
        nextId = IF ValidKeys = {} THEN 1
                 ELSE (CHOOSE m \in ValidKeys : \A x \in ValidKeys : x <= m) + 1

AllocatorReturnsMaxPlusOneWitness ==
    /\ nextId = 3
    /\ Len(scanItems) = 2
    /\ \E i \in 1..2 : ItemGet(scanItems[i], KeyName(entity)) = DecV(25, -1)
    /\ \E i \in 1..2 : ItemGet(scanItems[i], KeyName(entity)) = DecV(0, 0)

\* a PUT begins: the request p takes its first step; its payload is None unless
\* the body was turned down before the handler ran
UpdateBegins(p) == req[p].op = "none" /\ req'[p].op = "update"

\* C5, as stated: a PUT for an id not present in the collection answers 404 and
\* leaves the collection as it was.
UpdateOfAbsentIs404 ==
    [][\A p \in Req :
          (UpdateBegins(p) /\ req'[p].payload = None
                 /\ req'[p].key \notin DOMAIN table /\ req'[p].status # 500)
              => /\ req'[p].pc = "done" /\ req'[p].status = 404
                 /\ table' = table]_vars

\* C5, amended: a PUT with a valid payload for an id not present in the collection,
\* whose lookup the store answers, returns 404, or 400 when the collection is one
\* of agents, parties and products and the id is not positive; in both cases the
\* request ends there and the collection is as it was.
UpdateOfAbsentIs404Or400 ==
    [][\A p \in Req :
          (UpdateBegins(p) /\ req'[p].payload = None
                 /\ req'[p].key \notin DOMAIN table /\ req'[p].status # 500)
              => /\ req'[p].pc = "done"
                 /\ req'[p].status =
                       IF entity \in AllocEntities /\ req'[p].key <= 0 THEN 400 ELSE 404
                 /\ table' = table]_vars

UpdateOfAbsentWitness ==
    \E p, q \in Req :
        /\ req[p].op = "update" /\ req[p].status = 404 /\ req[p].key > 0
        /\ req[q].op = "update" /\ req[q].status = 400 /\ req[q].key = 0
        /\ table = SeedTable(entity, seed)
        /\ writes = 0

\* C6: once a DELETE of a key has answered 200, a GET of the key answers 404
\* until a create is assigned the key, whatever requests were in flight.
DeletedKeyStaysGone ==
    entity \in AllocEntities =>
        \A k \in tomb : GetResponse(entity, table, k).status = 404

\* the body of a successful POST of an Agent carries the id assigned, and a GET of
\* that id answers 200 with the same body while no later write to the id is applied
PostThenGetAgrees ==
    \A p \in Req :
        (entity = "Agent" /\ Created(p) /\ ver[req[p].key] = req[p].putV)
            => /\ req[p].body.agentId = IntV(req[p].key)
               /\ GetResponse(entity, table, req[p].key) =
                     [status |-> 200, body |-> req[p].body]

\* a POST of an Agent is assigned an id above every id the collection holds
NewIdAboveExisting ==
    \A p \in Req :
        (entity = "Agent" /\ req[p].op = "none" /\ req'[p].op = "create"
              /\ req'[p].payload = None /\ req'[p].status # 500)
            => \A k \in DOMAIN table : req'[p].key > k

\* C7: a successful POST of an Agent answers with an agentId greater than every
\* id in the collection when the request began, and a GET of that id, no write to
\* it intervening, answers 200 with the body of the POST.
AgentPostContract == []PostThenGetAgrees /\ [][NewIdAboveExisting]_vars

AgentPostContractWitness ==
    \E p \in Req :
        /\ entity = "Agent" /\ seed = {1}
        /\ Created(p) /\ req[p].key = 2
        /\ ver[2] = req[p].putV
        /\ table[2].AgentId = DecV(2, 0)
        /\ req[p].body.agentId = IntV(2)
        /\ req[p].body.name = req[p].payload.name

\* C8: after a successful update, until the next write to the key, the stored
\* record is the one built from the payload alone: every field that is null in the
\* payload is null in the record, and nothing of the previous record remains.
UpdateIsFullReplace ==
    \A p \in Req :
        (Updated(p) /\ ver[req[p].key] = req[p].putV)
            => /\ req[p].key \in DOMAIN table
               /\ LET item == table[req[p].key]
                      pl == req[p].payload
                  IN  /\ item = StoredItem(UpdateItem(entity, req[p].key, pl))
                      /\ Cardinality({a \in DOMAIN SeedTable(entity, {1})[1] :
                                         ItemGet(item, a) = None})
                            = Cardinality({f \in DOMAIN pl : pl[f] = None})

UpdateIsFullReplaceWitness ==
    \E p \in Req :
        /\ entity = "Party" /\ seed = {1}
        /\ SeedTable(entity, seed)[1].Email = StrV("a@b.in")
        /\ Updated(p) /\ req[p].key = 1
        /\ req[p].payload.email = None
        /\ ver[1] = req[p].putV
        /\ table[1].Email = None /\ table[1].Pincode = None

\* the stored attribute each string or boolean filter is compared with
FilterAttr ==
    [productType |-> "ProductType", bagMaterial |-> "BagMaterial",
     sheetColor |-> "SheetColor", borderColor |-> "BorderColor",
     handleColor |-> "HandleColor", printingType |-> "PrintingType",
     printColor |-> "PrintColor", color |-> "Color", design |-> "Design",
     plateAvailable |-> "PlateAvailable"]

\* the rate of a stored product lies within the price range of f
RateInRange(f, item) ==
    LET rate == ItemGet(item, "Rate")
    IN  /\ f.minPrice # None => (rate # None /\ FloatOfDecimal(rate).flt >= f.minPrice.flt)
        /\ f.maxPrice # None => (rate # None /\ FloatOfDecimal(rate).flt <= f.maxPrice.flt)

\* the products that satisfy every filter of f that is given, where a filter in
\* the set absent counts as not given
Satisfying(f, absent) ==
    {k \in DOMAIN table :
        /\ \A n \in DOMAIN FilterAttr :
              f[n] \notin absent => ItemGet(table[k], FilterAttr[n]) = f[n]
        /\ RateInRange(f, table[k])}

\* the response lists the products of ks, each once and normalised
ResultIs(ks) ==
    /\ Len(result) = Cardinality(ks)
    /\ \A k \in ks : \E i \in 1..Len(result) : result[i] = normalize_product_item(table[k])
    /\ \A i \in 1..Len(result) : result[i].productId.int \in ks

NumericRoundTrip ==
    num.stage = "decoded" => num.out = FltV(num.v)

NumericRoundTripWitness ==
    /\ num.stage = "decoded"
    /\ num.v = 105
    /\ num.enc = DecV(105, -2)
    /\ num.out = FltV(105)

-----------------------------------------------------------------------------
\* C11 as stated: whichever decoder runs, a value with a zero fractional part
\* decodes to an integer and any other value to a float.
EveryDecoderCollapsesWhole ==
    num.stage \in {"decoded", "converted"} =>
        num.out = IF num.v % 100 = 0 THEN IntV(num.v \div 100) ELSE FltV(num.v)

\* C11, amended: the order conversion (decimal_to_python) decodes a value with a
\* zero fractional part to an integer and any other value to a float; the account
\* and product decoders decode every value to a float.
OrderDecoderCollapsesWhole ==
    /\ num.stage = "converted" =>
          num.out = IF num.v % 100 = 0 THEN IntV(num.v \div 100) ELSE FltV(num.v)
    /\ num.stage = "decoded" => num.out = FltV(num.v)

\* decode(encode(5.0)) by the order conversion, read back from the store, is int 5
OrderDecoderCollapsesWholeWitness ==
    /\ num.stage = "converted"
    /\ num.v = 500
    /\ num.enc = DecV(5, 0)
    /\ num.out = IntV(5)

-----------------------------------------------------------------------------
\* the digits of an input, in order; none when the field is absent
DigitsOf(raw) == IF IsNone(raw) THEN <<>> ELSE OnlyDigits(raw.chars)

Validated == form.stage \in {"accepted", "rejected", "returned"}
Passed == form.stage \in {"accepted", "returned"}

\* a field left absent, empty or blank
Blank(raw) == IsNone(raw) \/ strip(raw.chars) = <<>>

\* C12 as stated: a mobile, Aadhar or pincode that is given is accepted iff exactly
\* 10, 12 or 6 digits remain once every non-digit character is removed; the accepted,
\* the stored and the returned value are those digits, and a rejection names the field.
DigitFieldKeepsDigits ==
    (Validated /\ FieldKind(form.field) = "digits" /\ ~Blank(form.raw)) =>
        LET ds == DigitsOf(form.raw)
        IN  /\ Passed <=> Len(ds) = Required(form.field)
            /\ Passed => form.value = PyStr(ds)
            /\ form.stage = "returned" => form.stored = PyStr(ds) /\ form.out = PyStr(ds)
            /\ form.stage = "rejected" => form.status = 422 /\ form.loc = <<"body", form.field[2]>>

\* the value of an optional field left blank: "" stays "", anything else blank is None
BlankValue(raw) == IF ~IsNone(raw) /\ raw.chars = <<>> THEN StrV("") ELSE None

\* the input a digit-string field accepts, field by field
DigitFieldAccepts(f, raw) ==
    LET ds == DigitsOf(raw)
        tenDigits == Len(ds) = MobileDigits
        partyMobile == tenDigits /\ ds[1] \notin {"0", "1"}
    IN  CASE f = <<"Agent", "mobile">> -> tenDigits
          [] f = <<"Agent", "aadhar_Details">> -> Len(ds) = AadharDigits
          [] f = <<"Party", "mobile1">> -> partyMobile
          [] f = <<"Party", "mobile2">> -> Blank(raw) \/ partyMobile
          [] f = <<"Party", "pincode">> ->
               \/ IsNone(raw)
               \/ /\ Len(raw.chars) <= PincodeMaxLength
                  /\ \/ Blank(raw)
                     \/ /\ Len(ds) = PincodeDigits
                        /\ \A i \in 1..Len(raw.chars) :
                             isdigit(raw.chars[i]) \/ raw.chars[i] = " "

\* C12, amended: mobile and Aadhar inputs are accepted only if exactly 10 or 12
\* digits remain once every non-digit character is removed, a party mobile only if
\* its first digit is neither 0 nor 1 as well; a pincode is accepted iff it is at most
\* 10 characters of digits and spaces with exactly 6 digits; an optional field left
\* absent or blank is accepted ("" as "", otherwise as null). Whatever else is
\* accepted is stored and returned as its digits, and a rejection names the field.
DigitFieldRules ==
    (Validated /\ FieldKind(form.field) = "digits") =>
        LET ds == DigitsOf(form.raw)
            expected == IF Blank(form.raw) THEN BlankValue(form.raw) ELSE PyStr(ds)
        IN  /\ Passed <=> DigitFieldAccepts(form.field, form.raw)
            /\ Passed => form.value = expected
            /\ form.stage = "returned" => form.stored = expected /\ form.out = expected
            /\ form.stage = "rejected" => form.status = 422 /\ form.loc = <<"body", form.field[2]>>

\* ' 98-765-432-10 ' given as an agent's mobile is stored and returned as '9876543210'
DigitFieldRulesWitness ==
    /\ form.stage = "returned"
    /\ form.field = <<"Agent", "mobile">>
    /\ form.raw = CharsV(<<" ", "9", "8", "-", "7", "6", "5", "-", "4", "3", "2", "-", "1", "0", " ">>)
    /\ form.stored = StrV("9876543210")
    /\ form.out = StrV("9876543210")

-----------------------------------------------------------------------------
\* the value is a member of the field's allow-list as it stands
IsMember(f, raw) ==
    IF FieldKind(f) = "choice" THEN raw.chars \in ValidSet(f)
    ELSE \/ IsInt(raw) /\ raw.int \in ValidSet(f)
         \/ IsFlt(raw) /\ raw.flt % 100 = 0 /\ (raw.flt \div 100) \in ValidSet(f)

\* the error enumerates the field's allow-list, each value once, in ascending order
EnumeratesSorted(f) ==
    /\ Len(form.valid) = Cardinality(ValidSet(f))
    /\ IF FieldKind(f) = "choice"
       THEN /\ {form.valid[i] : i \in 1..Len(form.valid)} = ValidSet(f)
            /\ \A i, j \in 1..Len(form.valid) :
                 i < j => StrLess(form.valid[i], form.valid[j])
       ELSE /\ {DigitsVal(form.valid[i]) : i \in 1..Len(form.valid)} = ValidSet(f)
            /\ \A i, j \in 1..Len(form.valid) :
                 i < j => DigitsVal(form.valid[i]) < DigitsVal(form.valid[j])

\* a categorical value is given: not absent, and not an empty or blank str
ChoiceGiven ==
    /\ ~IsNone(form.raw)
    /\ FieldKind(form.field) = "choice" => strip(form.raw.chars) # <<>>

\* C13 as stated: a categorical value that is given is accepted iff it is exactly a
\* member of the field's allow-list, and a non-member is rejected with a message
\* that enumerates the allow-list in sorted order.
ChoiceFieldExactMember ==
    (Validated /\ FieldKind(form.field) \in {"choice", "gsm"} /\ ChoiceGiven) =>
        /\ Passed <=> IsMember(form.field, form.raw)
        /\ form.stage = "rejected" => form.status = 422 /\ EnumeratesSorted(form.field)

\* a product field that is a str, left empty or blank
BlankProductChoice ==
    /\ FieldKind(form.field) = "choice"
    /\ form.field[1] = "Product"
    /\ strip(form.raw.chars) = <<>>

\* the value that is looked up: a product str trimmed, an order str as it is, a
\* product GSM as a float, an order GSM cut to an int
LookedUp(f, raw) ==
    IF FieldKind(f) = "choice"
    THEN IF f[1] = "Product" THEN PyStr(strip(raw.chars)) ELSE PyStr(raw.chars)
    ELSE IF f[1] = "Product" THEN (IF IsInt(raw) THEN FltV(100 * raw.int) ELSE raw)
    ELSE IF IsInt(raw) THEN raw
    ELSE IntV((IF raw.flt < 0 THEN -1 ELSE 1) * (Abs(raw.flt) \div 100))

\* the members of the allow-list as values of the payload
Members(f) ==
    IF FieldKind(f) = "choice" THEN {PyStr(s) : s \in ValidSet(f)}
    ELSE IF f[1] = "Product" THEN {FltV(100 * n) : n \in ValidSet(f)}
    ELSE {IntV(n) : n \in ValidSet(f)}

\* C13, amended: a categorical value is accepted iff it is a member of the field's
\* allow-list once a product str is trimmed of surrounding whitespace and an order
\* GSM is cut to an integer, and that trimmed or cut value is the one kept; a
\* non-member is rejected with a message that enumerates the allow-list in sorted
\* order, except an empty or blank product str, whose message is "... cannot be empty".
ChoiceFieldMember ==
    (Validated /\ FieldKind(form.field) \in {"choice", "gsm"} /\ ~IsNone(form.raw)) =>
        LET v == LookedUp(form.field, form.raw)
        IN  /\ Passed <=> v \in Members(form.field)
            /\ Passed => form.value = v
            /\ form.stage = "returned" => form.out = v
            /\ form.stage = "rejected" =>
                 /\ form.status = 422
                 /\ form.loc = <<"body", form.field[2]>>
                 /\ IF BlankProductChoice THEN form.valid = <<>>
                    ELSE EnumeratesSorted(form.field)

\* bag material 'Silk' is rejected and the message lists the five materials in order
ChoiceFieldMemberWitness ==
    /\ form.stage = "rejected"
    /\ form.field = <<"Product", "bagMaterial">>
    /\ form.raw = CharsV(<<"S", "i", "l", "k">>)
    /\ form.msg = "Invalid bag material. Must be one of: "
    /\ form.valid = << <<"C", "o", "t", "t", "o", "n", " ", "C", "a", "n", "v", "a", "s">>,
                       <<"J", "u", "t", "e">>,
                       <<"L", "i", "n", "e", "n">>,
                       <<"O", "r", "g", "a", "n", "i", "c", " ", "C", "o", "t", "t", "o", "n">>,
                       <<"R", "e", "c", "y", "c", "l", "e", "d", " ", "P", "o", "l", "y", "e",
                         "s", "t", "e", "r">> >>

-----------------------------------------------------------------------------
\* positions of c in cs
PositionsOf(cs, c) == {i \in 1..Len(cs) : cs[i] = c}

\* local@domain.tld: no whitespace, one '@', something before it, and after it a
\* dot with something on either side
HasEmailForm(cs) ==
    /\ \A i \in 1..Len(cs) : ~isspace(cs[i])
    /\ Cardinality(PositionsOf(cs, "@")) = 1
    /\ LET at == CHOOSE i \in PositionsOf(cs, "@") : TRUE
       IN  /\ at > 1
           /\ \E j \in PositionsOf(cs, ".") : at + 1 < j /\ j < Len(cs)

WithoutFinalNewline(cs) ==
    IF cs # <<>> /\ cs[Len(cs)] = "\n" THEN SubSeq(cs, 1, Len(cs) - 1) ELSE cs

\* the order pattern: local@domain.tld with letters, digits and . _ % + - before the
\* '@', letters, digits, dots and hyphens after it, and a last part of two or more
\* letters
HasOrderEmailForm(cs) ==
    /\ HasEmailForm(cs)
    /\ LET at == CHOOSE i \in PositionsOf(cs, "@") : TRUE
           dot == CHOOSE j \in PositionsOf(cs, ".") : \A k \in PositionsOf(cs, ".") : k <= j
       IN  /\ \A i \in 1..(at - 1) :
                isletter(cs[i]) \/ isdigit(cs[i]) \/ cs[i] \in {".", "_", "%", "+", "-"}
           /\ \A i \in (at + 1)..(dot - 1) :
                isletter(cs[i]) \/ isdigit(cs[i]) \/ cs[i] \in {".", "-"}
           /\ Len(cs) - dot >= 2
           /\ \A i \in (dot + 1)..Len(cs) : isletter(cs[i])

Ends(p) == req[p].pc # "done" /\ req'[p].pc = "done"

\* the body of the request r breaks a rule of a field
BreaksRule(r) ==
    /\ r.payload # None
    /\ "raw" \in DOMAIN r.payload
    /\ ~ValidateField(r.payload.field, r.payload.raw).ok

\* C15: of the requests that end, exactly those whose body breaks a field rule are
\* answered 422, exactly those in which a call to the store failed are answered
\* 500, and exactly the GET, PUT and DELETE with a passing body for an id that the
\* collection does not hold (a positive id, where the router checks the id), the
\* lookup answered, are answered 404.
ErrorClassesKeepApart ==
    [][\A p \in Req :
          Ends(p) =>
              LET r == req'[p]
                  storage == r.err # None
                  absent == /\ req[p].op = "none" /\ r.op \in {"get", "update", "delete"}
                            /\ (HasIdCheck(entity) => r.key > 0)
                            /\ r.key \notin DOMAIN table
                            /\ ~BreaksRule(r) /\ ~storage
              IN  /\ BreaksRule(r) <=> r.status = 422
                  /\ storage <=> r.status = 500
                  /\ absent <=> r.status = 404]_vars

\* C16: a POST or PUT whose body breaks a field rule ends in its first step, before
\* the handler has made a call to the store: it is answered neither as a success
\* nor as the id check or the existence lookup would answer, whether the
\* collection holds the id or not, and the collection, the write count and every
\* other request are as they were.
BadBodyNeverReachesStore ==
    [][\A p \in Req :
          (Ends(p) /\ BreaksRule(req'[p]))
              => /\ req[p].op = "none"
                 /\ req'[p].op \in {"create", "update"}
                 /\ req'[p].status \notin {200, 400, 404}
                 /\ req'[p].scanV = 0 /\ req'[p].putV = 0
                 /\ table' = table /\ writes' = writes /\ ver' = ver
                 /\ \A q \in Req \ {p} : req'[q] = req[q]]_vars

\* two PUTs with a bad body, one for an id the collection holds and one for an id
\* it does not hold, both answered 422 and the collection untouched
BadBodyNeverReachesStoreWitness ==
    \E p, q \in Req :
        /\ entity = "Order" /\ seed = {1}
        /\ req[p].op = "update" /\ req[p].key = 1 /\ BreaksRule(req[p])
        /\ req[p].pc = "done" /\ req[p].status = 422
        /\ req[q].op = "update" /\ req[q].key = 0 /\ BreaksRule(req[q])
        /\ req[q].pc = "done" /\ req[q].status = 422
        /\ req[q].body = [loc |-> <<"body", "Email">>, msg |-> "String should match pattern"]
        /\ table = SeedTable(entity, seed) /\ writes = 0

\* C17: of two PUTs of one id that have both succeeded, the one whose put_item the
\* store applied last has written the whole record: while no later write to the id
\* is applied, every attribute of the stored record is the one built from that
\* request's payload, and none is left from the other request's payload.
LastUpdateWins ==
    \A p, q \in Req :
        (p # q /\ Updated(p) /\ Updated(q) /\ req[p].key = req[q].key
             /\ req[p].putV > req[q].putV /\ ver[req[p].key] = req[p].putV)
            => /\ req[p].key \in DOMAIN table
               /\ LET item == table[req[p].key]
                      mine == StoredItem(UpdateItem(entity, req[p].key, req[p].payload))
                  IN  /\ DOMAIN item = DOMAIN mine
                      /\ \A a \in DOMAIN item : item[a] = mine[a]

\* two PUTs of order 1 with different payloads, each having looked the order up
\* before the other's put_item: the record is the later one's, and the optional
\* attributes the earlier one gave are null or gone
LastUpdateWinsWitness ==
    \E p, q \in Req :
        /\ entity = "Order" /\ seed = {1}
        /\ Updated(p) /\ Updated(q) /\ req[p].key = 1 /\ req[q].key = 1
        /\ req[q].scanV = 0 /\ req[p].scanV = 0
        /\ req[q].putV = 1 /\ req[p].putV = 2 /\ ver[1] = 2
        /\ req[q].payload.Mobile2 = IntV(1999999999)
        /\ req[p].payload.Mobile2 = None
        /\ table[1].Mobile2 = None
        /\ "PlateBlockNumber" \notin DOMAIN table[1]
        /\ table[1].AgentId = DecV(12, 0)

\* C18: a POST to agents, parties or products with a passing body either goes on
\* to its put_item with the id that the scan of the collection gives, or, the scan
\* having failed, ends there with 500 and the provider's error: it has no id and
\* has issued no put_item, the collection and the write count are as they were.
\* No other id is ever used, and a request that has ended takes no further step,
\* so the scan is not tried again.
FailedScanAbortsCreate ==
    [][\A p \in Req :
          /\ (entity \in AllocEntities /\ req[p].op = "none" /\ req'[p].op = "create"
                 /\ ~BreaksRule(req'[p]))
                => /\ table' = table /\ writes' = writes /\ req'[p].putV = 0
                   /\ \/ /\ req'[p].pc = "put"
                         /\ req'[p].key = Allocate(entity, Scan(table))
                      \/ /\ req'[p].pc = "done" /\ req'[p].status = 500
                         /\ req'[p].err \in ClientErrors
                         /\ req'[p].body = StorageError(entity, req'[p].err)
                         /\ req'[p].key = 0
          /\ req[p].pc = "done" => req'[p] = req[p]]_vars

\* a POST to a filled agents collection has ended with 500 and the provider's
\* error, without an id, and nothing has been written
FailedScanAbortsCreateWitness ==
    \E p \in Req :
        /\ entity = "Agent" /\ seed = {1}
        /\ req[p].op = "create" /\ req[p].pc = "done"
        /\ req[p].status = 500 /\ req[p].err \in ClientErrors
        /\ req[p].body = StorageError(entity, req[p].err)
        /\ req[p].key = 0 /\ req[p].putV = 0 /\ req[p].payload = None
        /\ table = SeedTable(entity, seed) /\ writes = 0

\* the create p, about to put, has run with no other create in between: no other
\* create has scanned and not yet put, and none has put since p scanned
CreateAlone(p) ==
    \A q \in Req \ {p} :
        req[q].op = "create"
            => /\ req[q].pc = "done"
               /\ req[q].putV <= req[p].scanV

\* C19: the put_item of a create on agents, parties or products that no other
\* create has interleaved with writes under an id the collection does not hold:
\* every record stored before is as it was and the collection has one record more.
LoneCreateAddsOneRecord ==
    [][\A p \in Req :
          (/\ entity \in AllocEntities
           /\ req[p].op = "create" /\ req[p].pc = "put" /\ Created(p)'
           /\ CreateAlone(p))
              => /\ req[p].key \notin DOMAIN table
                 /\ DOMAIN table' = DOMAIN table \cup {req[p].key}
                 /\ \A k \in DOMAIN table : table'[k] = table[k]]_vars

\* the attributes of the seeded record that the stored record lacks or holds as null
Gaps ==
    LET full == SeedTable(entity, seed)[1]
    IN  {a \in DOMAIN full : ItemGet(table[1], a) = None}

\* C20, as stated: every attribute but the key that the stored record lacks or
\* holds as null is null in the decoded record, and every other field is decoded
\* as it is from the complete record.
MissingOrNullDecodesToNull ==
    result # <<>> =>
        LET body == result[1]
            whole == Normalize(entity, SeedTable(entity, seed)[1])
        IN  /\ DOMAIN body \subseteq DOMAIN whole
            /\ \A f \in DOMAIN whole : ItemGet(body, f) \in {None, whole[f]}
            /\ Cardinality({f \in DOMAIN whole : ItemGet(body, f) = None})
                  = Cardinality(Gaps)

\* C20, amended: the same, but a product whose record lacks Design or
\* PlateAvailable is decoded with the flag false; a flag stored as null is null.
MissingFlagDecodesToFalse ==
    result # <<>> =>
        LET body == result[1]
            whole == Normalize(entity, SeedTable(entity, seed)[1])
            flags == IF entity = "Product"
                     THEN {"Design", "PlateAvailable"} \ DOMAIN table[1] ELSE {}
        IN  /\ DOMAIN body \subseteq DOMAIN whole
            /\ \A f \in DOMAIN whole : ItemGet(body, f) \in {None, whole[f], BoolV(FALSE)}
            /\ ("Design" \in flags) <=> (entity = "Product" /\ body.design = BoolV(FALSE))
            /\ ("PlateAvailable" \in flags)
                   <=> (entity = "Product" /\ body.plateAvailable = BoolV(FALSE))
            /\ Cardinality({f \in DOMAIN whole : ItemGet(body, f) = None})
                  = Cardinality(Gaps \ flags)
            /\ Cardinality({f \in DOMAIN whole : ItemGet(body, f) = whole[f]})
                  = Cardinality(DOMAIN whole) - Cardinality(Gaps)

\* a party whose record lacks Email and holds Mobile2 as null is listed with both
\* null and the pincode as the string it was stored as
MissingFlagDecodesToFalseWitness ==
    /\ entity = "Party" /\ result # <<>>
    /\ "Email" \notin DOMAIN table[1]
    /\ "Mobile2" \in DOMAIN table[1] /\ table[1].Mobile2 = None
    /\ result[1].email = None /\ result[1].mobile2 = None
    /\ result[1].partyId = IntV(1)
    /\ result[1].pincode = StrV("411001")

-----------------------------------------------------------------------------
\* the mobile-number fields of the request models
MobileFields ==
    {<<"Agent", "mobile">>, <<"Party", "mobile1">>, <<"Party", "mobile2">>,
     <<"Order", "Mobile1">>, <<"Order", "Mobile2">>}

\* the input is a number of ten digits of which the first is 0 or 1: a string that
\* holds ten digits, or an integer written with ten digits
TenDigitsFromLow(raw) ==
    LET ds == IF IsInt(raw) THEN Digits(raw.int) ELSE DigitsOf(raw)
    IN  Len(ds) = MobileDigits /\ ds[1] \in {"0", "1"}

\* C21 as stated: every mobile-number field of every entity rejects a 10-digit
\* number whose first digit is 0 or 1.
MobileRejectsLowFirstDigit ==
    (Validated /\ form.field \in MobileFields /\ TenDigitsFromLow(form.raw)) =>
        form.stage = "rejected"

\* C21, amended: a 10-digit number whose first digit is 0 or 1 is rejected by the
\* party's mobile1 and mobile2, with 422 and "cannot start with 0 or 1" at the
\* field, and by no other mobile field: an agent's mobile accepts it as its ten
\* digits and an order's Mobile1 and Mobile2 accept it as the integer it is.
OnlyPartyMobileRejectsLowFirstDigit ==
    (Validated /\ form.field \in MobileFields /\ TenDigitsFromLow(form.raw)) =>
        IF form.field[1] = "Party"
        THEN /\ form.stage = "rejected"
             /\ form.status = 422
             /\ form.loc = <<"body", form.field[2]>>
             /\ form.msg = (IF form.field[2] = "mobile1" THEN "Mobile 1" ELSE "Mobile 2")
                               \o " cannot start with 0 or 1"
        ELSE /\ Passed
             /\ form.value = (IF form.field[1] = "Order" THEN form.raw
                              ELSE PyStr(DigitsOf(form.raw)))

\* 1234567890 given as an order's Mobile1 is accepted, stored and returned
OnlyPartyMobileRejectsLowFirstDigitWitness ==
    /\ form.stage = "returned"
    /\ form.field = <<"Order", "Mobile1">>
    /\ form.raw = IntV(1234567890)
    /\ form.stored = DecV(1234567890, 0)
    /\ form.out = IntV(1234567890)

-----------------------------------------------------------------------------
\* the fields declared str or Optional[str], and those of them that are optional
StringFields == {f \in Fields : FieldKind(f) \in {"text", "digits", "email", "choice"}}
OptionalFields ==
    {<<"Party", "contact_Person2">>, <<"Party", "mobile2">>, <<"Party", "email">>,
     <<"Party", "address">>, <<"Party", "city">>, <<"Party", "state">>,
     <<"Party", "pincode">>, <<"Party", "orderId">>, <<"Order", "Contact_Person2">>}

\* a string that is empty or holds whitespace only
EmptyOrBlank(raw) == ~IsNone(raw) /\ strip(raw.chars) = <<>>

\* C22 as stated: an optional string field takes an empty and a whitespace-only
\* string as absent (the stored value is null), and a required string field rejects
\* both.
BlankIsAbsentOrRejected ==
    (Validated /\ form.field \in StringFields /\ EmptyOrBlank(form.raw)) =>
        IF form.field \in OptionalFields
        THEN /\ Passed
             /\ form.value = None
             /\ form.stage = "returned" => form.stored = None
        ELSE form.stage = "rejected"

\* C22, amended: an optional string field of a party takes a whitespace-only string
\* as absent (null is stored) and keeps an empty string as the empty string; an
\* order's Contact_Person2 keeps both as given. A required string field of an
\* agent, a party or a product, an order's Email and an order's enumerated fields
\* reject both; an order's Party_Name, AliasOrCompanyName, Address, City, State and
\* Contact_Person1 reject the empty string and keep a whitespace-only string as
\* given; the required string fields of an account transaction keep both as given.
BlankHandledPerModel ==
    (Validated /\ form.field \in StringFields /\ EmptyOrBlank(form.raw)) =>
        LET f == form.field
            given == PyStr(form.raw.chars)
            Kept(v) == /\ Passed
                       /\ form.value = v
                       /\ form.stage = "returned" => form.stored = v
            Rejected == /\ form.stage = "rejected"
                        /\ form.status = 422
                        /\ form.loc = <<"body", f[2]>>
        IN  IF f \in OptionalFields
            THEN IF f[1] = "Party" THEN Kept(BlankValue(form.raw)) ELSE Kept(given)
            ELSE IF f[1] = "Account" THEN Kept(given)
            ELSE IF f[1] = "Order" /\ FieldKind(f) = "text"
            THEN IF form.raw.chars = <<>> THEN Rejected ELSE Kept(given)
            ELSE Rejected

\* an empty second contact person of a party is stored as the empty string
BlankHandledPerModelWitness ==
    /\ form.stage = "returned"
    /\ form.field = <<"Party", "contact_Person2">>
    /\ form.raw = CharsV(<<>>)
    /\ form.stored = StrV("")

-----------------------------------------------------------------------------
\* what the decoding of the field came to, as a validation result
Outcome ==
    [ok |-> Passed,
     value |-> form.value,
     raised |-> IF Passed THEN "" ELSE IF form.stage = "rejected" THEN "ValueError" ELSE "other",
     msg |-> IF form.stage = "rejected" THEN form.msg ELSE "",
     valid |-> form.valid]

\* the result r as the decoding of the body records it
Recorded(r) ==
    [r EXCEPT !.raised = IF r.ok \/ r.raised = "ValueError" THEN r.raised ELSE "other",
              !.msg = IF r.raised = "ValueError" THEN r.msg ELSE ""]

-----------------------------------------------------------------------------
\* the numeric fields of a product, and the upper bound of each
ProductNumbers ==
    {<<"Product", "rate">>, <<"Product", "productSize">>, <<"Product", "quantity">>,
     <<"Product", "plateBlockNumber">>}

UpperBound(f) ==
    CASE f[2] = "rate" -> 1000000
      [] f[2] = "quantity" -> 10000000
      [] f[2] = "productSize" -> 10000
      [] f[2] = "plateBlockNumber" -> 1000

\* C24: product validation rejects rate <= 0 and productSize <= 0, quantity < 0 and
\* plateBlockNumber < 0, and any value above the field's upper bound (1,000,000 for
\* rate, 10,000,000 for quantity, 10,000 for productSize, 1,000 for
\* plateBlockNumber); 0 as quantity or plateBlockNumber and the upper bound of each
\* field are accepted, and kept as they are.
ProductNumberBounds ==
    (Validated /\ form.field \in ProductNumbers /\ IsFlt(form.raw)) =>
        LET f == form.field
            h == form.raw.flt
            positive == f[2] \in {"rate", "productSize"}
            Rejected == /\ form.stage = "rejected"
                        /\ form.status = 422
                        /\ form.loc = <<"body", f[2]>>
            Kept == /\ Passed
                    /\ form.value = form.raw
                    /\ form.stage = "returned" => form.out = form.raw
        IN  /\ (positive /\ h <= 0) => Rejected
            /\ (~positive /\ h < 0) => Rejected
            /\ h > 100 * UpperBound(f) => Rejected
            /\ (~positive /\ h = 0) => Kept
            /\ h = 100 * UpperBound(f) => Kept

\* a quantity of 10,000,000 is accepted, stored and returned
ProductNumberBoundsWitness ==
    /\ form.stage = "returned"
    /\ form.field = <<"Product", "quantity">>
    /\ form.raw = FltV(1000000000)
    /\ form.out = FltV(1000000000)
    /\ FloatOfDecimal(form.stored) = FltV(1000000000)

-----------------------------------------------------------------------------
\* the amount is one the field's bounds allow: a product rate is above 0 and at
\* most 1,000,000, an order Rate is above 0, an order TotalAmount is not negative
AmountInRange(f, v) ==
    CASE f = <<"Product", "rate">> -> GreaterThan(v, 0) /\ ~GreaterThan(v, 1000000)
      [] f = <<"Order", "Rate">> -> GreaterThan(v, 0)
      [] f = <<"Order", "TotalAmount">> -> GreaterThan(v, 0) \/ v = FltV(0)
      [] f = <<"Account", "amount">> -> TRUE

\* C25: every currency field (Product rate, Order Rate and TotalAmount, AccountTxn
\* amount) rejects a value that has more than two decimal digits and accepts every
\* in-range value with at most two.
CurrencyKeepsTwoDecimals ==
    (Validated /\ form.field \in CurrencyFields) =>
        /\ IsFine(form.raw) => form.stage = "rejected"
        /\ (IsFlt(form.raw) /\ AmountInRange(form.field, form.raw)) =>
               Passed /\ form.value = form.raw

\* C25 on the product rate alone, the one currency field with a validator that
\* counts decimal places
ProductRateKeepsTwoDecimals ==
    (Validated /\ form.field = <<"Product", "rate">>) =>
        /\ IsFine(form.raw) => form.stage = "rejected"
        /\ (IsFlt(form.raw) /\ AmountInRange(form.field, form.raw)) =>
               Passed /\ form.value = form.raw

-----------------------------------------------------------------------------
\* the detail holds the string s as one of the pieces it is put together from
Carries(detail, s) == \E i \in 1..Len(detail) : detail[i] = s

-----------------------------------------------------------------------------
\* C27: an update never adds a key to the collection: the put of an update, in
\* whatever interleaving with deletes of the same id, leaves the collection with
\* no key that it did not hold before, so an update whose lookup ran before a
\* delete does not insert the record again.
UpdateNeverAddsKey ==
    [][\A p \in Req :
          (req[p].op = "update" /\ req[p].pc = "put" /\ req'[p].pc = "done"
               /\ req'[p].status = 200)
              => DOMAIN table' \subseteq DOMAIN table]_vars

-----------------------------------------------------------------------------
\* C28: for a stored record at most one delete request reports success: a DELETE
\* answers with the deleted outcome only when its delete_item removed a record
\* that was still stored, so of two concurrent DELETE requests for the same id
\* one answers 200 and the other 404.
AtMostOneDeleteSucceeds ==
    [][\A p \in Req :
          (req[p].op = "delete" /\ req[p].pc = "del" /\ req'[p].pc = "done"
               /\ req'[p].status = 200)
              => req[p].key \in DOMAIN table]_vars

\* C28, as the code has it: a DELETE answers 404 exactly when the record is not
\* stored at the time of its lookup, and once the lookup has found the record
\* the delete_item that follows answers with the deleted outcome whether or not
\* the record is still stored; two DELETE requests whose lookups both ran
\* before either delete_item both report success.
DeleteSucceedsWhenStoredAtLookup ==
    [][\A p \in Req :
          /\ (req[p].op = "none" /\ req'[p].op = "delete" /\ req'[p].err = None
                  /\ (HasIdCheck(entity) => req'[p].key > 0))
                 => IF req'[p].key \in DOMAIN table
                    THEN req'[p].pc = "del"
                    ELSE req'[p].status = 404 /\ req'[p].body = NotFound(entity)
          /\ (req[p].op = "delete" /\ req[p].pc = "del" /\ req'[p].pc = "done"
                  /\ req'[p].err = None)
                 => /\ req'[p].status = 200
                    /\ req'[p].body = Deleted(entity, req[p].key)
                    /\ req[p].key \notin DOMAIN table']_vars

\* two DELETE requests for the same id have both reported success
DeleteSucceedsWhenStoredAtLookupWitness ==
    \E p, q \in Req :
        /\ p # q
        /\ req[p].op = "delete" /\ req[q].op = "delete"
        /\ req[p].key = req[q].key
        /\ req[p].status = 200 /\ req[q].status = 200
        /\ req[p].body = Deleted(entity, req[p].key)
        /\ req[q].body = Deleted(entity, req[q].key)

-----------------------------------------------------------------------------
\* C29: any two successful order creates are assigned different OrderIds, also
\* when they carry the same AgentId and are issued in the same second or at
\* times that differ by a multiple of 1,000,000 seconds, so that no create
\* replaces the order of an earlier create.
OrderCreatesGetDifferentIds ==
    entity = "Order"
        => \A p, q \in Req :
              (p # q /\ Created(p) /\ Created(q)) => req[p].key # req[q].key

-----------------------------------------------------------------------------
\* C30: creating an account transaction never changes an existing transaction:
\* a POST /accounts whose payload carries a txnId that is already in the
\* collection leaves the stored record of that txnId as it was.
CreateAccountKeepsExisting ==
    [][\A p \in Req :
          (entity = "Account" /\ req[p].op = "none" /\ req'[p].op = "create"
               /\ req'[p].status = 200 /\ req'[p].key \in DOMAIN table)
              => table'[req'[p].key] = table[req'[p].key]]_vars

\* C30, as the code has it: a successful POST /accounts stores the record built
\* from its payload under its txnId, in place of the record stored under that
\* txnId if there is one, and changes the record of no other txnId.
CreateAccountReplacesOnlyItsTxnId ==
    [][\A p \in Req :
          (entity = "Account" /\ req[p].op = "none" /\ req'[p].op = "create"
               /\ req'[p].status = 200)
              => LET k == req'[p].key
                 IN  /\ DOMAIN table' = DOMAIN table \cup {k}
                     /\ table'[k] = StoredItem(CreateItem(entity, k, req'[p].payload))
                     /\ \A j \in DOMAIN table \ {k} : table'[j] = table[j]]_vars

\* a POST /accounts with the txnId of a seeded transaction has answered 200 and
\* the collection holds its record, which is not the seeded one
CreateAccountReplacesOnlyItsTxnIdWitness ==
    /\ entity = "Account"
    /\ \E p \in Req :
          /\ Created(p)
          /\ req[p].key \in seed
          /\ req[p].key \in DOMAIN table
          /\ table[req[p].key] = StoredItem(CreateItem(entity, req[p].key, req[p].payload))
          /\ table[req[p].key] # SeedTable(entity, seed)[req[p].key]

=============================================================================
